---- MODULE Spec2Model ----
(***************************************************************************)
(* A model of pywhiten: the pre-whitening loop of PyWhitener (auto, it_pw, *)
(* post_pw), the peak selection of Periodogram, the fits of Optimizer and  *)
(* the FrequencyContainer they fill.                                       *)
(*                                                                         *)
(* Units.  Frequencies are integers in tenths of a cycle per unit time,    *)
(* phases are integers in hundredths of a cycle, times are integers, and   *)
(* data values are integers in hundredths of an amplitude unit.  A         *)
(* significance is a ratio kept as the pair <<numerator, denominator>>.    *)
(* Python's None is the empty tuple <<>> and a present value x is <<x>>.   *)
(*                                                                         *)
(* The numerical solvers (lmfit, scipy.optimize.curve_fit) and the         *)
(* Lomb-Scargle transform (astropy) are outside the repository: each of    *)
(* their results is a choice, made with \E, from a small set of values     *)
(* that respect the bounds the code hands to them.                         *)
(***************************************************************************)
EXTENDS Integers, Sequences, FiniteSets, TLC

VARIABLES
    cfg,      \* PyWhitener.cfg: the merged configuration dictionary
    lcs,      \* PyWhitener.lcs: the list of Lightcurve objects
    freqs,    \* PyWhitener.freqs: the FrequencyContainer (flist, n)
    c_zp,     \* Optimizer.c_zp
    out,      \* the calls received by the OutputManager, in order
    pc,       \* position of the running operation
    loc,      \* arguments, locals and results of the running operation
    hist      \* what the run has done so far (observation only)

vars == <<cfg, lcs, freqs, c_zp, out, pc, loc, hist>>

----------------------------------------------------------------------------
(* Bounds of the model                                                     *)

\* largest autopw.cutoff_iteration tried
MaxCutoff == 2
\* largest autopw.peak_selection_highest_override tried
MaxOverride == 1
\* largest amplitude of a periodogram handed to select_peak directly
MaxAmp == 2

(* Program constants                                                       *)

\* the initial phase guess it_pw hands to the single-frequency fit (0.5)
ItPwPhaseGuess == 50
\* the phase must have moved by this much (0.1)
PhaseMoveMin == 10
\* the perturbation of the phase guess on a retry (0.17)
PhaseStep == 17
\* the order sig_poly fits with when no fit is stored
SigPolyOrder == 5
\* default bin_r of sig_box (1.0 in frequency units)
BinR == 10

None == <<>>
Some(x) == <<x>>
IsNone(o) == o = <<>>
Val(o) == o[1]

Abs(x) == IF x < 0 THEN -x ELSE x
Min2(a, b) == IF a < b THEN a ELSE b

RECURSIVE SumSeq(_)
SumSeq(s) == IF s = <<>> THEN 0 ELSE Head(s) + SumSeq(Tail(s))

\* the indices of s at which keep holds, in increasing order
RECURSIVE Where(_, _)
Where(keep, k) ==
    IF k > Len(keep) THEN <<>>
    ELSE IF keep[k] THEN <<k>> \o Where(keep, k + 1)
    ELSE Where(keep, k + 1)

----------------------------------------------------------------------------
(* optimization/models.py                                                  *)

\* sin(2 pi k / 100) for k = 0..25, in hundredths
SinQuarter ==
    <<0, 6, 13, 19, 25, 31, 37, 43, 48, 54, 59, 64, 68, 73, 77, 81, 84, 88,
      90, 93, 95, 97, 98, 99, 100, 100>>

\* sin(2 pi c / 100), in hundredths, for any integer c
Sin100(c) ==
    LET k == c % 100
    IN  IF k <= 25 THEN SinQuarter[k + 1]
        ELSE IF k <= 50 THEN SinQuarter[50 - k + 1]
        ELSE IF k <= 75 THEN -SinQuarter[k - 50 + 1]
        ELSE -SinQuarter[100 - k + 1]

\* a*sin(2 pi (f x + p)) at every time of x; f in tenths, p in hundredths
sin_model(x, f, a, p) ==
    [i \in 1..Len(x) |-> a * Sin100(10 * f * x[i] + p)]

\* a*cos(2 pi (f x + p)) = a*sin(2 pi (f x + p + 1/4))
cos_model(x, f, a, p) ==
    [i \in 1..Len(x) |-> a * Sin100(10 * f * x[i] + p + 25)]

\* the model function named by optimization.frequency_model_type
ModelFunction(kind, x, f, a, p) ==
    IF kind = "cos" THEN cos_model(x, f, a, p) ELSE sin_model(x, f, a, p)

\* slf_noise(x, x0, alpha0, gamma, Cw) = alpha0/(1 + (x/x0)^gamma) + Cw as
\* the ratio <<num, den>>, for the exponents gamma = 0 and gamma = 1
slf_noise(x, par) ==
    IF par[3] = 0
    THEN <<par[2] + 2 * par[4], 2>>
    ELSE <<par[2] * par[1] + par[4] * (par[1] + x), par[1] + x>>

\* 10 ** n_model_poly(log10 x, c0, 0, ..., 0): a polynomial whose only
\* non-zero coefficient is the constant one, kept as its level 10**c0.
\* log10 of x <= 0 is -inf or nan and the value is nan: <<0, 0>>
poly_level(x, par) == IF x <= 0 THEN <<0, 0>> ELSE <<par.level, 1>>

----------------------------------------------------------------------------
(* data/Periodogram.py                                                     *)

\* a Periodogram object: the grid, the amplitudes and the stored fits
Periodogram(grid, amp) ==
    [lsfreq |-> grid, lsamp |-> amp, slf_p |-> None, log_polypar |-> None]

\* Periodogram.fit_slf / fit_lopoly store the coefficients the solver found
fit_slf(pg, par) == [pg EXCEPT !.slf_p = Some(par)]
fit_lopoly(pg, order, level) ==
    [pg EXCEPT !.log_polypar = Some([order |-> order, level |-> level])]

\* amp / noise > s for a noise level <<num, den>> with num, den > 0; false
\* for the nan <<0, 0>>, as every comparison with nan is
RatioAbove(amp, noise, s) == amp * noise[2] > s * noise[1]

\* highest_ampl without its mask: the first grid point of maximum amplitude
highest_ampl_unmasked(pg, excl_mask) ==
    LET ymax == CHOOSE j \in 1..Len(pg.lsamp) :
                    /\ \A k \in 1..Len(pg.lsamp) : pg.lsamp[k] <= pg.lsamp[j]
                    /\ \A k \in 1..(j - 1) : pg.lsamp[k] < pg.lsamp[j]
    IN  <<Some(pg.lsfreq[ymax]), Some(pg.lsamp[ymax])>>

\* Periodogram.highest_ampl: the first grid point of maximum amplitude among
\* those the mask keeps, (None, None) when it keeps none
highest_ampl(pg, excl_mask) ==
    LET kept == Where(excl_mask, 1)
        filtered_lsamp == [j \in 1..Len(kept) |-> pg.lsamp[kept[j]]]
        filtered_lsfreq == [j \in 1..Len(kept) |-> pg.lsfreq[kept[j]]]
        ymax == CHOOSE j \in 1..Len(kept) :
                    /\ \A k \in 1..Len(kept) : filtered_lsamp[k] <= filtered_lsamp[j]
                    /\ \A k \in 1..(j - 1) : filtered_lsamp[k] < filtered_lsamp[j]
    IN  IF Len(kept) = 0 THEN <<None, None>>
        ELSE <<Some(filtered_lsfreq[ymax]), Some(filtered_lsamp[ymax])>>

\* the mask select_peak starts from: all true, times the caller's mask
CallerMask(pg, mask) ==
    [i \in 1..Len(pg.lsfreq) |-> IF IsNone(mask) THEN TRUE ELSE Val(mask)[i]]

\* sig_slf(lsfreq, lsamp) > min_prov_sig, element by element
SlfAbove(pg, min_prov_sig) ==
    [i \in 1..Len(pg.lsfreq) |->
        RatioAbove(pg.lsamp[i], slf_noise(pg.lsfreq[i], Val(pg.slf_p)), min_prov_sig)]

\* sig_poly(lsfreq, lsamp) > min_prov_sig, element by element
PolyAbove(pg, min_prov_sig) ==
    [i \in 1..Len(pg.lsfreq) |->
        RatioAbove(pg.lsamp[i], poly_level(pg.lsfreq[i], Val(pg.log_polypar)), min_prov_sig)]

MaskAnd(m1, m2) == [i \in 1..Len(m1) |-> m1[i] /\ m2[i]]

\* fit_lopoly hands log10(lsfreq) and log10(lsamp) to curve_fit, which
\* raises ValueError on a non-finite entry
LogFinite(pg) == \A i \in 1..Len(pg.lsfreq) : pg.lsfreq[i] > 0 /\ pg.lsamp[i] > 0

\* the lazy fit of sig_poly raises
PolyFitRaises(pg, method) == method = "poly" /\ IsNone(pg.log_polypar) /\ ~LogFinite(pg)

\* a fit made on every call, stored or not
PgAlwaysRefit(pg, method, slfpar, level) ==
    IF method = "slf" THEN fit_slf(pg, slfpar)
    ELSE IF method = "poly" THEN fit_lopoly(pg, SigPolyOrder, level)
    ELSE pg

\* the periodogram after the fit that `method` needs, when none is stored:
\* sig_slf fits the red-noise model, sig_poly a polynomial of order 5
PgAfterSigFit(pg, method, slfpar, level) ==
    IF method = "slf" /\ IsNone(pg.slf_p) THEN fit_slf(pg, slfpar)
    ELSE IF method = "poly" /\ IsNone(pg.log_polypar) THEN fit_lopoly(pg, SigPolyOrder, level)
    ELSE pg

\* working_mask of select_peak, on the periodogram after its lazy fit
WorkingMask(pg, method, min_prov_sig, mask) ==
    IF method = "slf" THEN MaskAnd(CallerMask(pg, mask), SlfAbove(pg, min_prov_sig))
    ELSE IF method = "poly" THEN MaskAnd(CallerMask(pg, mask), PolyAbove(pg, min_prov_sig))
    ELSE CallerMask(pg, mask)

\* (~working_mask).any(): the mask has a false entry
SomeExcluded(working_mask) == \E i \in 1..Len(working_mask) : ~working_mask[i]

\* (~working_mask).all(): the mask has no true entry
AllExcluded(working_mask) == \A i \in 1..Len(working_mask) : ~working_mask[i]

\* Periodogram.select_peak.  slfpar and level are what the solver returns
\* should a fit be needed.  The result holds the returned pair, the
\* periodogram as the call leaves it, and whether ValueError was raised
\* (by select_peak for an unknown method, or by the polynomial fit).
select_peak(pg, method, min_prov_sig, mask, slfpar, level) ==
    LET pg2 == PgAfterSigFit(pg, method, slfpar, level)
        working_mask == WorkingMask(pg2, method, min_prov_sig, mask)
    IN  IF method \notin {"highest", "slf", "poly"} \/ PolyFitRaises(pg, method)
        THEN [ret |-> <<None, None>>, pg |-> pg, raised |-> TRUE]
        ELSE IF AllExcluded(working_mask)
        THEN [ret |-> <<None, None>>, pg |-> pg2, raised |-> FALSE]
        ELSE [ret |-> highest_ampl(pg2, working_mask), pg |-> pg2, raised |-> FALSE]

\* Periodogram.eval_slf_model: fits the red-noise model when none is
\* stored, then evaluates it at x
eval_slf_model(pg, x, slfpar) ==
    LET pg2 == IF IsNone(pg.slf_p) THEN fit_slf(pg, slfpar) ELSE pg
    IN  [pg |-> pg2, raised |-> FALSE, value |-> Some(slf_noise(x, Val(pg2.slf_p)))]

\* Periodogram.eval_poly_model: fits the polynomial of the configured order
\* when none is stored, then evaluates it on the grid (x is not used)
eval_poly_model(pg, x, order, level) ==
    IF IsNone(pg.log_polypar) /\ ~LogFinite(pg)
    THEN [pg |-> pg, raised |-> TRUE, value |-> None]
    ELSE LET pg2 == IF IsNone(pg.log_polypar) THEN fit_lopoly(pg, order, level) ELSE pg
         IN  [pg |-> pg2, raised |-> FALSE,
              value |-> Some([i \in 1..Len(pg2.lsfreq) |->
                                poly_level(pg2.lsfreq[i], Val(pg2.log_polypar))])]

\* Periodogram.sig_slf and sig_poly at one frequency and amplitude
sig_slf(pg, center_val_freq, freq_amp, slfpar) ==
    LET pg2 == PgAfterSigFit(pg, "slf", slfpar, 0)
    IN  [pg |-> pg2, raised |-> FALSE,
         value |-> Some(<<freq_amp * slf_noise(center_val_freq, Val(pg2.slf_p))[2],
                          slf_noise(center_val_freq, Val(pg2.slf_p))[1]>>)]

sig_poly(pg, center_val_freq, freq_amp, level) ==
    IF PolyFitRaises(pg, "poly")
    THEN [pg |-> pg, raised |-> TRUE, value |-> None]
    ELSE LET pg2 == PgAfterSigFit(pg, "poly", <<>>, level)
             noise == poly_level(center_val_freq, Val(pg2.log_polypar))
         IN  [pg |-> pg2, raised |-> FALSE,
              value |-> Some(<<freq_amp * noise[2], noise[1]>>)]

----------------------------------------------------------------------------
(* The inputs the model draws from                                         *)

\* the time axis of the input series
Time == <<0, 1, 2, 3>>
\* the input data, in hundredths
InputData == {<<150, -120, 80, -70>>}
\* the weights of the input series
InputErr == <<1, 1, 1, 1>>
\* frequency grids, in tenths: lower limit 0, and lower limit the resolution
GridFromZero == <<0, 10, 20>>
Grid == <<5, 10, 20>>
\* the grid and the amplitude spectrum the transform may produce for the
\* input series
InputSpectra ==
    {[grid |-> GridFromZero, amp |-> <<3, 1, 1>>],
     [grid |-> Grid, amp |-> <<1, 3, 1>>],
     [grid |-> Grid, amp |-> <<1, 1, 1>>]}
\* amplitude spectra the transform may produce for a residual series
ResidualAmps == {<<1, 3, 1>>, <<1, 1, 1>>}
\* red-noise coefficients [x0, alpha0, gamma, Cw] curve_fit may return
SlfFits == {<<10, 2, 1, 1>>}
\* levels 10**c0 of the polynomial model curve_fit may return
PolyLevels == {1}
\* what a least-squares solve may do to the start values of a term
\* (frequency, amplitude, phase) and of the offset: leave them, or move them
SolverMoves ==
    {[df |-> 0, da |-> 0, dp |-> 0, dz |-> 0], [df |-> 1, da |-> -1, dp |-> 7, dz |-> 5]}
\* phases, in hundredths, a single-frequency solve may end at
PhaseValues == {50, 58, 75}

Methods == {"highest", "slf", "poly"}
Policies == {"mf", "sf", "none"}

\* the configuration entries the modelled code reads
Config(cutoff, override, method, policy, zp, check, plo, phi) ==
    [cutoff_iteration |-> cutoff,
     peak_selection_highest_override |-> override,
     peak_selection_method |-> method,
     peak_selection_cutoff_sig |-> 1,
     new_lc_generation_method |-> policy,
     mf_include_zp |-> zp,
     sf_phase_value_check |-> check,
     phase_lower |-> plo, phase_upper |-> phi,
     freq_lower_coeff |-> 80, freq_upper_coeff |-> 120,
     amp_lower_coeff |-> 50, amp_upper_coeff |-> 150,
     frequency_model_type |-> "sin",
     subtract_mean |-> TRUE,
     input_t0 |-> 0,
     polyfit_order |-> 5]

----------------------------------------------------------------------------
(* data/Lightcurve.py, data/Frequency.py, data/FrequencyContainer.py       *)

\* Lightcurve.__init__: stores the series and builds its Periodogram on the
\* frequency grid; amp is the amplitude spectrum the transform produces
Lightcurve(time, data, err, grid, amp) ==
    [time |-> time, data |-> data, err |-> err, periodogram |-> Periodogram(grid, amp)]

\* Frequency.__init__
Frequency(f, a, p, t0, model_function, n) ==
    [f |-> f, f0 |-> f, a |-> a, a0 |-> a, p |-> p, p0 |-> p, t0 |-> t0, n |-> n,
     model_function |-> model_function,
     sig_poly |-> <<0, 1>>, sig_avg |-> <<0, 1>>, sig_slf |-> <<0, 1>>,
     sig_box |-> None, sigma_f |-> None, sigma_a |-> None, sigma_p |-> None]

\* FrequencyContainer.__init__ with no records
FrequencyContainer == [flist |-> <<>>, n |-> 0]

\* add_frequency without the count
AddFrequencyNoCount(fc, freq) == [flist |-> Append(fc.flist, freq), n |-> fc.n]

\* FrequencyContainer.add_frequency
add_frequency(fc, freq) == [flist |-> Append(fc.flist, freq), n |-> fc.n + 1]

\* Frequency.evaluate_model
evaluate_model(freq, x) == ModelFunction(freq.model_function, x, freq.f, freq.a, freq.p)

\* element-wise a - b and a + b of two series of one length
VecSub(a, b) == [i \in 1..Len(a) |-> a[i] - b[i]]
VecAdd(a, b) == [i \in 1..Len(a) |-> a[i] + b[i]]

\* data - np.mean(data), for data whose mean is an integer
SubtractMean(data) == [i \in 1..Len(data) |-> data[i] - (SumSeq(data) \div Len(data))]

----------------------------------------------------------------------------
(* optimization/Optimizer.py                                               *)

\* set_param_hint(value=v, min=v*lo, max=v*hi) with lo, hi in percent: the
\* limits are kept times 100
Hint(v, lo, hi) == [value |-> v, min100 |-> v * lo, max100 |-> v * hi]

\* set_param_hint("p", value=p, min=phase_lower, max=phase_upper)
PhaseHint(p, c) == [value |-> p, min100 |-> 100 * c.phase_lower, max100 |-> 100 * c.phase_upper]

InBounds(h, v) == h.min100 <= 100 * v /\ 100 * v <= h.max100

\* the value a solve ends at when it moves the start value by d: inside the
\* limits, or the start value when the move would leave them
Solve(h, d) == IF InBounds(h, h.value + d) THEN h.value + d ELSE h.value

\* the phases a solve may end at under the hint h
PhaseOutcomes(h) == {p \in PhaseValues \cup {h.value} : InBounds(h, p)}

\* the best values a single-frequency solve may end at under the hints h:
\* the start values, or moved values with one of the phases
SfOutcomes(h) ==
    {[f |-> h.f.value, a |-> h.a.value, p |-> h.p.value]} \cup
    {[f |-> Solve(h.f, mv.df), a |-> Solve(h.a, mv.da), p |-> p] :
        mv \in {m \in SolverMoves : m.df # 0}, p \in PhaseOutcomes(h.p) \ {h.p.value}}

\* a hint whose limits coincide (f0 = 0 or a0 = 0): the fit library may
\* reject it with ValueError
DegenerateHints(h) == h.f.min100 = h.f.max100 \/ h.a.min100 = h.a.max100

\* the three hints single_frequency_optimization sets on every pass: all
\* from the arguments f0, a0, p0
SfHints(c, f0, a0, p0) ==
    [f |-> Hint(f0, c.freq_lower_coeff, c.freq_upper_coeff),
     a |-> Hint(a0, c.amp_lower_coeff, c.amp_upper_coeff),
     p |-> PhaseHint(p0, c)]

\* the phase check made whatever the configuration says
PhaseStuckUnconditional(c, best_p, guess_p) == Abs(best_p - guess_p) < PhaseMoveMin

\* the phase check that sends single_frequency_optimization round again
PhaseStuck(c, best_p, guess_p) ==
    c.sf_phase_value_check /\ Abs(best_p - guess_p) < PhaseMoveMin

\* the hints multi_frequency_optimization sets for the term of record freq
MfHints(c, freq) ==
    [f |-> Hint(freq.f, c.freq_lower_coeff, c.freq_upper_coeff),
     a |-> Hint(freq.a, c.amp_lower_coeff, c.amp_upper_coeff),
     p |-> PhaseHint(freq.p, c)]

\* the best values of one term when the solve moves it by mv
MfBest(c, freq, mv) ==
    LET h == MfHints(c, freq)
    IN  [f |-> Solve(h.f, mv.df), a |-> Solve(h.a, mv.da), p |-> Solve(h.p, mv.dp)]

\* a write-back that also overwrites the retained start values
MfWriteBackWithStart(c, flist, mv) ==
    [i \in 1..Len(flist) |->
        LET b == MfBest(c, flist[i], mv)
        IN  [flist[i] EXCEPT !.f = b.f, !.a = b.a, !.p = b.p,
                             !.f0 = b.f, !.a0 = b.a, !.p0 = b.p]]

\* the records after the joint fit wrote its best values back
MfWriteBack(c, flist, mv) ==
    [i \in 1..Len(flist) |->
        LET b == MfBest(c, flist[i], mv)
        IN  [flist[i] EXCEPT !.f = b.f, !.a = b.a, !.p = b.p]]

\* the start value of the offset term: the current c_zp when
\* optimization.mf_include_zp puts the term in the model, no term otherwise
MfZpHint(c, zp) == IF c.mf_include_zp THEN Some(zp) ELSE None

\* c_zp stored from the fit whatever the configuration says
MfZpAlways(c, zp, mv) == zp + mv.dz

\* c_zp after the joint fit: the fitted offset when the term is in the model
MfZp(c, zp, mv) == IF c.mf_include_zp THEN zp + mv.dz ELSE zp

\* the sum of the terms of the records, evaluated at x
RECURSIVE SumModels(_, _, _)
SumModels(flist, x, k) ==
    IF k > Len(flist) THEN [i \in 1..Len(x) |-> 0]
    ELSE VecAdd(evaluate_model(flist[k], x), SumModels(flist, x, k + 1))

\* f_result.best_fit of the joint model: the terms plus the offset term
\* when optimization.mf_include_zp puts it in the model
MfBestFit(c, flist, x, zp) ==
    LET s == SumModels(flist, x, 1)
    IN  [i \in 1..Len(x) |-> s[i] + (IF c.mf_include_zp THEN zp ELSE 0)]

----------------------------------------------------------------------------
(* Significances and uncertainties (Periodogram, FrequencyContainer)       *)

\* Periodogram.find_index_of_freq, as a 0-based index; len(lsfreq) when t is
\* at or beyond the last grid frequency
RECURSIVE FindFrom(_, _, _)
FindFrom(g, t, i) ==
    IF i > Len(g) - 2
    THEN IF t < g[1] THEN 0 ELSE Len(g)
    ELSE IF g[i + 1] <= t /\ t < g[i + 2]
         THEN IF Abs(g[i + 1] - t) > Abs(g[i + 2] - t) THEN i ELSE i + 1
         ELSE FindFrom(g, t, i + 1)

find_index_of_freq(pg, t) == FindFrom(pg.lsfreq, t, 0)

\* the Python slice s[lo:hi] for 0 <= lo, hi
Slice(s, lo, hi) ==
    LET h == Min2(hi, Len(s))
    IN  IF lo >= h THEN <<>> ELSE [j \in 1..(h - lo) |-> s[lo + j]]

\* Periodogram.sig_box: the ratio, or IndexError when the index of the
\* frequency is len(lsfreq).  The mean of an empty region is nan: <<0, 0>>
sig_box(pg, center_val_freq, freq_amp, bin_r) ==
    LET center_i_freq == find_index_of_freq(pg, center_val_freq)
    IN  IF center_i_freq >= Len(pg.lsfreq)
        THEN [raised |-> TRUE, sig |-> None]
        ELSE LET lower_i_freq == find_index_of_freq(pg, pg.lsfreq[center_i_freq + 1] - bin_r)
                 upper_i_freq == find_index_of_freq(pg, pg.lsfreq[center_i_freq + 1] + bin_r)
                 total_avg_region == Slice(pg.lsamp, lower_i_freq, upper_i_freq)
             IN  [raised |-> FALSE,
                  sig |-> IF Len(total_avg_region) = 0 THEN Some(<<0, 0>>)
                          ELSE Some(<<freq_amp * Len(total_avg_region), SumSeq(total_avg_region)>>)]

\* s[j] with Python's indexing from 0: a negative j counts from the end,
\* None stands for IndexError
PyGet(s, j) ==
    IF 0 <= j /\ j < Len(s) THEN Some(s[j + 1])
    ELSE IF j < 0 /\ -Len(s) <= j THEN Some(s[Len(s) + j + 1])
    ELSE None

\* `not left_i`: the index is None or 0
Unset(i) == IsNone(i) \/ Val(i) = 0

\* the while loop of find_troughs from the value `count` on
RECURSIVE TroughsFrom(_, _, _, _, _)
TroughsFrom(pg, center, count, left_i, right_i) ==
    IF ~Unset(left_i) /\ ~Unset(right_i)
    THEN [raised |-> FALSE, left_i |-> Val(left_i), right_i |-> Val(right_i)]
    ELSE LET c == count + 1
             la == PyGet(pg.lsamp, center - c)
             lb == PyGet(pg.lsamp, center - c + 1)
             ra == PyGet(pg.lsamp, center + c)
             rb == PyGet(pg.lsamp, center + c - 1)
             lraise == Unset(left_i) /\ center - c # 0 /\ (IsNone(la) \/ IsNone(lb))
             lhit == /\ Unset(left_i)
                     /\ \/ center - c = 0
                        \/ ~IsNone(la) /\ ~IsNone(lb) /\ Val(la) >= Val(lb)
             rraise == /\ Unset(right_i) /\ center + c # Len(pg.lsfreq)
                       /\ (IsNone(ra) \/ IsNone(rb))
             rhit == /\ Unset(right_i)
                     /\ \/ center + c = Len(pg.lsfreq)
                        \/ ~IsNone(ra) /\ ~IsNone(rb) /\ Val(ra) >= Val(rb)
         IN  IF lraise \/ rraise THEN [raised |-> TRUE, left_i |-> 0, right_i |-> 0]
             ELSE TroughsFrom(pg, center, c,
                              IF lhit THEN Some(center - c + 1) ELSE left_i,
                              IF rhit THEN Some(center + c - 1) ELSE right_i)

\* Periodogram.find_troughs, indices from 0; raised stands for IndexError
find_troughs(pg, center) ==
    LET r == TroughsFrom(pg, center, 2, None, None)
    IN  IF r.raised THEN r
        ELSE IF r.left_i < 0
        THEN [r EXCEPT !.left_i = IF r.right_i > Len(pg.lsfreq) THEN Len(pg.lsfreq) ELSE 0]
        ELSE r

\* np.where(lsfreq == f)[0][0], from 0; None stands for IndexError
IndexOfFreq(pg, f) ==
    IF \E i \in 1..Len(pg.lsfreq) : pg.lsfreq[i] = f
    THEN Some((CHOOSE i \in 1..Len(pg.lsfreq) :
                /\ pg.lsfreq[i] = f
                /\ \A j \in 1..(i - 1) : pg.lsfreq[j] # f) - 1)
    ELSE None

\* Periodogram.peak_sig_box: the ratio, or the exception raised
peak_sig_box(pg, center_val_freq, freq_amp, bin_r) ==
    LET where == IndexOfFreq(pg, center_val_freq)
        center_i_freq == Val(where)
        tr == find_troughs(pg, center_i_freq)
        low0 == pg.lsfreq[center_i_freq + 1] - bin_r
        upp0 == pg.lsfreq[center_i_freq + 1] + bin_r
        lower_val_freq == IF low0 < 0 THEN 0 ELSE low0
        upper_val_freq == IF upp0 > pg.lsfreq[Len(pg.lsfreq)] THEN pg.lsfreq[Len(pg.lsfreq)] ELSE upp0
        lower_i_freq == find_index_of_freq(pg, lower_val_freq)
        upper_i_freq == Min2(find_index_of_freq(pg, upper_val_freq), Len(pg.lsfreq))
        total_avg_region == Slice(pg.lsamp, lower_i_freq, tr.left_i)
                                \o Slice(pg.lsamp, tr.right_i, upper_i_freq)
    IN  IF IsNone(where) THEN [raised |-> TRUE, error |-> "IndexError", sig |-> None]
        ELSE IF tr.raised THEN [raised |-> TRUE, error |-> "IndexError", sig |-> None]
        ELSE IF low0 > pg.lsfreq[tr.left_i + 1] \/ upp0 < pg.lsfreq[tr.right_i + 1]
        THEN [raised |-> TRUE, error |-> "AverageRadiusTooNarrow", sig |-> None]
        ELSE [raised |-> FALSE, error |-> "",
              sig |-> IF Len(total_avg_region) = 0 THEN Some(<<0, 0>>)
                      ELSE Some(<<freq_amp * Len(total_avg_region), SumSeq(total_avg_region)>>)]

\* freq_amp / noise for a noise level <<num, den>>
RatioOver(freq_amp, noise) == <<freq_amp * noise[2], noise[1]>>

\* FrequencyContainer.compute_significances from record k on: for each
\* record sig_slf, then sig_box, then sig_poly; the fits the first and the
\* last need are stored on the periodogram.  IndexError from sig_box and
\* ValueError from the polynomial fit leave the rest undone.
RECURSIVE SigFrom(_, _, _, _, _)
SigFrom(flist, pg, k, slfpar, level) ==
    IF k > Len(flist) THEN [flist |-> flist, pg |-> pg, raised |-> FALSE, error |-> ""]
    ELSE LET pg1 == PgAfterSigFit(pg, "slf", slfpar, level)
             s1 == RatioOver(flist[k].a, slf_noise(flist[k].f, Val(pg1.slf_p)))
             fl1 == [flist EXCEPT ![k].sig_slf = s1]
             b == sig_box(pg1, flist[k].f, flist[k].a, BinR)
             pg2 == PgAfterSigFit(pg1, "poly", slfpar, level)
             s3 == RatioOver(flist[k].a, poly_level(flist[k].f, Val(pg2.log_polypar)))
             fl2 == [fl1 EXCEPT ![k].sig_box = b.sig]
         IN  IF b.raised
             THEN [flist |-> fl1, pg |-> pg1, raised |-> TRUE, error |-> "IndexError"]
             ELSE IF PolyFitRaises(pg1, "poly")
             THEN [flist |-> fl2, pg |-> pg1, raised |-> TRUE, error |-> "ValueError"]
             ELSE SigFrom([fl2 EXCEPT ![k].sig_poly = s3],
                          pg2, k + 1, slfpar, level)

compute_significances(flist, pg, slfpar, level) == SigFrom(flist, pg, 1, slfpar, level)

\* Lightcurve.measure_N_eff
measure_N_eff(lc) ==
    Cardinality({i \in 1..(Len(lc.time) - 1) :
                    \/ lc.data[i] > 0 /\ lc.data[i + 1] < 0
                    \/ lc.data[i] < 0 /\ lc.data[i + 1] > 0})

\* Lightcurve.t_span
t_span(lc) ==
    LET ts == {lc.time[i] : i \in 1..Len(lc.time)}
    IN  (CHOOSE m \in ts : \A t \in ts : t <= m) - (CHOOSE m \in ts : \A t \in ts : m <= t)

\* sqrt(c/N_eff) * std(data) / (pi^k * T * a), kept as its operands
Uncertainty(c, N_eff, lc, k, T, a) ==
    Some([c |-> c, N_eff |-> N_eff, std_of |-> lc.data, pi_power |-> k, T |-> T, a |-> a])

\* compute_parameter_uncertainties with the phase uncertainty not divided
\* by the amplitude
UncertaintiesPhaseAsAmplitude(flist, lc) ==
    LET N_eff == measure_N_eff(lc)
        T == t_span(lc)
    IN  IF Len(flist) > 0 /\ N_eff = 0 THEN [flist |-> flist, raised |-> TRUE]
        ELSE [flist |-> [i \in 1..Len(flist) |->
                            [flist[i] EXCEPT
                                !.sigma_f = Uncertainty(6, N_eff, lc, 1, T, flist[i].a),
                                !.sigma_a = Uncertainty(2, N_eff, lc, 0, 1, 1),
                                !.sigma_p = Uncertainty(2, N_eff, lc, 0, 1, 1)]],
              raised |-> FALSE]

\* FrequencyContainer.compute_parameter_uncertainties; 6/N_eff raises
\* ZeroDivisionError for the first record when N_eff is 0
compute_parameter_uncertainties(flist, lc) ==
    LET N_eff == measure_N_eff(lc)
        T == t_span(lc)
    IN  IF Len(flist) > 0 /\ N_eff = 0 THEN [flist |-> flist, raised |-> TRUE]
        ELSE [flist |-> [i \in 1..Len(flist) |->
                            [flist[i] EXCEPT
                                !.sigma_f = Uncertainty(6, N_eff, lc, 1, T, flist[i].a),
                                !.sigma_a = Uncertainty(2, N_eff, lc, 0, 1, 1),
                                !.sigma_p = Uncertainty(2, N_eff, lc, 0, 1, flist[i].a)]],
              raised |-> FALSE]

----------------------------------------------------------------------------
(* PyWhitener: the state after construction                                *)

\* the locals of the running operation before any call
NoLocals ==
    [caller |-> "none", i |-> 0, method |-> "", sp_args |-> None, cand |-> <<None, None>>,
     sf_args |-> None, initial_guess |-> <<>>, hints |-> None, passes |-> 0,
     op |-> "", sf_res |-> None, mf_args |-> None, mf_res |-> None, mf_mod |-> None, flag |-> None,
     error |-> ""]

NoHistory ==
    [calls |-> 0, selects |-> <<>>, flags |-> <<>>, post |-> 0, sig_lc |-> 0, unc_lc |-> 0]

\* PyWhitener.__init__ under configuration c on the series (Time, data,
\* InputErr), whose periodogram is sp
Constructed(c, data, sp) ==
    /\ cfg = c
    /\ lcs = << Lightcurve(Time, IF c.subtract_mean THEN SubtractMean(data) ELSE data,
                           InputErr, sp.grid, sp.amp) >>
    /\ freqs = FrequencyContainer
    /\ c_zp = 0
    /\ out = <<>>
    /\ loc = NoLocals
    /\ hist = NoHistory

\* the configurations auto() is run under: every loop option; the offset
\* term in the joint model and no phase check (SpecSf covers the check)
AutoConfigs ==
    {Config(cutoff, override, method, policy, TRUE, FALSE, 0, 100) :
        cutoff \in 0..MaxCutoff, override \in 0..MaxOverride, method \in Methods,
        policy \in Policies}

Init ==
    /\ pc = "idle"
    /\ \E c \in AutoConfigs, data \in InputData, sp \in InputSpectra : Constructed(c, data, sp)

----------------------------------------------------------------------------
(* PyWhitener.auto, it_pw and post_pw                                      *)

Last(s) == s[Len(s)]

\* auto without its break: the loop goes round whatever it_pw returned
ReturnNoBreak(l, flag) ==
    IF l.caller = "auto"
    THEN [pc |-> "auto_for", loc |-> [l EXCEPT !.flag = Some(flag), !.i = l.i + 1]]
    ELSE [pc |-> "idle", loc |-> [l EXCEPT !.flag = Some(flag)]]

\* it_pw returns flag to its caller: auto leaves its loop on 1 and goes
\* round on anything else; a caller by hand is done
Return(l, flag) ==
    IF l.caller = "auto"
    THEN [pc |-> IF flag = 1 THEN "post_pw" ELSE "auto_for",
          loc |-> [l EXCEPT !.flag = Some(flag), !.i = l.i + 1]]
    ELSE [pc |-> "idle", loc |-> [l EXCEPT !.flag = Some(flag)]]

\* the override applied to one iteration more
AutoMethodOffByOne(c, i) ==
    IF i <= c.peak_selection_highest_override THEN "highest" ELSE c.peak_selection_method

\* the method auto() passes to it_pw in iteration i
AutoMethod(c, i) ==
    IF i < c.peak_selection_highest_override THEN "highest" ELSE c.peak_selection_method

\* the caller calls auto() on the fresh PyWhitener
AutoCall ==
    /\ pc = "idle" /\ hist.calls = 0 /\ loc.caller = "none"
    /\ pc' = "auto_for"
    /\ loc' = [loc EXCEPT !.caller = "auto", !.i = 0]
    /\ UNCHANGED <<cfg, lcs, freqs, c_zp, out, hist>>

\* the head of auto's for loop: the next it_pw call, or the end of the range
AutoFor ==
    /\ pc = "auto_for"
    /\ IF loc.i < cfg.cutoff_iteration
       THEN /\ pc' = "id_peak"
            /\ loc' = [loc EXCEPT !.method = AutoMethod(cfg, loc.i), !.flag = None]
            /\ hist' = [hist EXCEPT !.calls = @ + 1]
       ELSE /\ pc' = "post_pw"
            /\ UNCHANGED <<loc, hist>>
    /\ UNCHANGED <<cfg, lcs, freqs, c_zp, out>>

\* what it_pw hands to select_peak through id_peak: its own method
\* argument, the configured cutoff significance, no mask
IdPeakArgs(c, method) ==
    [method |-> method, min_prov_sig |-> c.peak_selection_cutoff_sig, mask |-> None]

\* a truth-value test of the candidate frequency in place of `is None`
SelectorTerminatesFalsy(ret) == IsNone(ret[1]) \/ IsNone(ret[2]) \/ Val(ret[1]) = 0

\* it_pw's test of the candidate: both are None
SelectorTerminates(ret) == IsNone(ret[1]) /\ IsNone(ret[2])

\* it_pw, first stage: id_peak on the last light curve; (None, None) returns
\* 1, anything else is handed to single_frequency_optimization with phase 0.5
ItPwIdPeak ==
    /\ pc = "id_peak"
    /\ \E slfpar \in SlfFits, level \in PolyLevels :
        LET args == IdPeakArgs(cfg, loc.method)
            r == select_peak(Last(lcs).periodogram, args.method,
                             args.min_prov_sig, args.mask, slfpar, level)
            l1 == [loc EXCEPT !.sp_args = Some(args), !.cand = r.ret]
            h1 == [hist EXCEPT !.selects = Append(@, args)]
        IN  /\ lcs' = [lcs EXCEPT ![Len(lcs)].periodogram = r.pg]
            /\ IF r.raised
               THEN /\ pc' = "raised"
                    /\ loc' = [l1 EXCEPT !.error = "ValueError"]
                    /\ hist' = h1
               ELSE IF SelectorTerminates(r.ret)
               THEN /\ pc' = Return(l1, 1).pc
                    /\ loc' = Return(l1, 1).loc
                    /\ hist' = [h1 EXCEPT !.flags = Append(@, 1)]
               ELSE /\ pc' = "sf_fit"
                    /\ loc' = [l1 EXCEPT
                                !.sf_args = Some([x |-> Last(lcs).time, data |-> Last(lcs).data,
                                                  err |-> Last(lcs).err, f0 |-> Val(r.ret[1]),
                                                  a0 |-> Val(r.ret[2]), p0 |-> ItPwPhaseGuess]),
                                !.initial_guess = <<Val(r.ret[1]), Val(r.ret[2]), ItPwPhaseGuess>>,
                                !.hints = None, !.passes = 0, !.sf_res = None]
                    /\ hist' = h1
    /\ UNCHANGED <<cfg, freqs, c_zp, out>>

\* one pass of the while loop of single_frequency_optimization: the hints,
\* the fit (which may reject degenerate hints), and the phase check that either perturbs initial_guess[2] and
\* goes round again or returns the best values and the best fit
SfPass ==
    /\ pc = "sf_fit"
    /\ LET a == Val(loc.sf_args)
           h == SfHints(cfg, a.f0, a.a0, a.p0)
       IN  \E best \in SfOutcomes(h), ok \in (IF DegenerateHints(h) THEN BOOLEAN ELSE {TRUE}) :
            LET l1 == [loc EXCEPT !.hints = Some(h), !.passes = @ + 1]
            IN  IF ~ok
                THEN /\ pc' = "raised"
                     /\ loc' = [l1 EXCEPT !.error = "ValueError"]
                ELSE IF PhaseStuck(cfg, best.p, loc.initial_guess[3])
                THEN /\ pc' = "sf_fit"
                     /\ loc' = [l1 EXCEPT !.initial_guess[3] = @ + PhaseStep]
                ELSE /\ pc' = (IF loc.caller = "user" THEN "returned" ELSE "add_mf")
                     /\ loc' = [l1 EXCEPT !.sf_res =
                                    Some([f |-> best.f, a |-> best.a, p |-> best.p,
                                          best_fit |-> ModelFunction(cfg.frequency_model_type,
                                                                     a.x, best.f, best.a, best.p)])]
    /\ UNCHANGED <<cfg, lcs, freqs, c_zp, out, hist>>

\* the record numbered from one
NewRecordFromOne(c, res, fc) ==
    Frequency(res.f, res.a, res.p, c.input_t0, c.frequency_model_type, Len(fc.flist) + 1)

\* the record it_pw builds from the single-frequency result
NewRecord(c, res, fc) ==
    Frequency(res.f, res.a, res.p, c.input_t0, c.frequency_model_type, Len(fc.flist))

\* the joint fit handed the most recent series
MfSeriesLast(ls) == Last(ls)

\* the series it_pw hands to multi_frequency_optimization
MfSeries(ls) == ls[1]

\* it_pw, second and third stage: add_frequency of the new record, then
\* multi_frequency_optimization of all records against the first light curve
ItPwAddMf ==
    /\ pc = "add_mf"
    /\ LET fc == add_frequency(freqs, NewRecord(cfg, Val(loc.sf_res), freqs))
           lc == MfSeries(lcs)
       IN  \E mv \in SolverMoves :
            LET fl == MfWriteBack(cfg, fc.flist, mv)
                zp == MfZp(cfg, c_zp, mv)
            IN  /\ freqs' = [fc EXCEPT !.flist = fl]
                /\ c_zp' = zp
                /\ loc' = [loc EXCEPT
                            !.mf_args = Some([x |-> lc.time, data |-> lc.data, err |-> lc.err,
                                              start |-> [i \in 1..Len(fc.flist) |->
                                                            <<fc.flist[i].f, fc.flist[i].a, fc.flist[i].p>>],
                                              zp0 |-> MfZpHint(cfg, c_zp)]),
                            !.mf_res = Some([best |-> [i \in 1..Len(fc.flist) |->
                                                         MfBest(cfg, fc.flist[i], mv)],
                                             zpz |-> c_zp + mv.dz]),
                            !.mf_mod = Some(MfBestFit(cfg, fl, lc.time, zp))]
    /\ pc' = "save_it"
    /\ UNCHANGED <<cfg, lcs, out, hist>>

\* save_it handed the collection without its newest record
SaveItStaleCollection(ls, fc, zp, ok) ==
    [op |-> "save_it", nlcs |-> Len(ls), last_data |-> Last(ls).data,
     nfreqs |-> Len(fc.flist) - 1,
     zp |-> zp, raised |-> (Len(fc.flist) = 0 \/ ~ok)]


\* OutputManager.save_it as the core sees it: what it is handed, and
\* whether it raised (IndexError on an empty flist, or a failed write)
SaveIt(ls, fc, zp, ok) ==
    [op |-> "save_it", nlcs |-> Len(ls), last_data |-> Last(ls).data, nfreqs |-> Len(fc.flist),
     zp |-> zp, raised |-> (Len(fc.flist) = 0 \/ ~ok)]

\* it_pw: the call of save_it after the joint fit; its exception is not
\* caught and ends it_pw
ItPwSaveIt ==
    /\ pc = "save_it"
    /\ \E ok \in BOOLEAN :
        LET call == SaveIt(lcs, freqs, c_zp, ok)
        IN  /\ out' = Append(out, call)
            /\ IF call.raised
               THEN pc' = "raised" /\ loc' = [loc EXCEPT !.error = "save_it"]
               ELSE pc' = "new_lc" /\ loc' = loc
    /\ UNCHANGED <<cfg, lcs, freqs, c_zp, hist>>

\* the joint model subtracted from the most recent series
NewLcDataFromLast(policy, ls, l) ==
    IF policy = "mf" THEN VecSub(Last(ls).data, Val(l.mf_mod))
    ELSE VecSub(Last(ls).data, Val(l.sf_res).best_fit)

\* the data of the light curve it_pw appends under residual policy `policy`
NewLcData(policy, ls, l) ==
    IF policy = "mf" THEN VecSub(ls[1].data, Val(l.mf_mod))
    ELSE VecSub(Last(ls).data, Val(l.sf_res).best_fit)

\* the time axis of the light curve it_pw appends
NewLcTime(policy, ls) == IF policy = "mf" THEN ls[1].time ELSE Last(ls).time

\* it_pw, final stage: the new light curve and return 0, or return 2
ItPwNewLc ==
    /\ pc = "new_lc"
    /\ LET policy == cfg.new_lc_generation_method
       IN  IF policy \in {"mf", "sf"}
           THEN \E amp \in ResidualAmps :
                    /\ lcs' = Append(lcs, Lightcurve(NewLcTime(policy, lcs),
                                                     NewLcData(policy, lcs, loc),
                                                     lcs[1].err, lcs[1].periodogram.lsfreq, amp))
                    /\ pc' = Return(loc, 0).pc
                    /\ loc' = Return(loc, 0).loc
                    /\ hist' = [hist EXCEPT !.flags = Append(@, 0)]
           ELSE /\ lcs' = lcs
                /\ pc' = Return(loc, 2).pc
                /\ loc' = Return(loc, 2).loc
                /\ hist' = [hist EXCEPT !.flags = Append(@, 2)]
    /\ UNCHANGED <<cfg, freqs, c_zp, out>>

\* post_pw on the original light curve
PostResidualFirst(ls) == 1

\* the light curve post_pw takes as the residual (residual_lc_idx = -1)
PostResidualIdx(ls) == Len(ls)

\* post_pw, first call: compute_significances on the residual periodogram
PostSig ==
    /\ pc = "post_pw"
    /\ LET k == PostResidualIdx(lcs)
       IN  \E slfpar \in SlfFits, level \in PolyLevels :
            LET r == compute_significances(freqs.flist, lcs[k].periodogram, slfpar, level)
            IN  /\ freqs' = [freqs EXCEPT !.flist = r.flist]
                /\ lcs' = [lcs EXCEPT ![k].periodogram = r.pg]
                /\ hist' = [hist EXCEPT !.post = @ + 1, !.sig_lc = k]
                /\ IF r.raised
                   THEN pc' = "raised" /\ loc' = [loc EXCEPT !.error = r.error]
                   ELSE pc' = "post_unc" /\ loc' = loc
    /\ UNCHANGED <<cfg, c_zp, out>>

\* post_pw, second call: compute_parameter_uncertainties on the residual
PostUnc ==
    /\ pc = "post_unc"
    /\ LET k == PostResidualIdx(lcs)
           r == compute_parameter_uncertainties(freqs.flist, lcs[k])
       IN  /\ freqs' = [freqs EXCEPT !.flist = r.flist]
           /\ hist' = [hist EXCEPT !.unc_lc = k]
           /\ IF r.raised
              THEN pc' = "raised" /\ loc' = [loc EXCEPT !.error = "ZeroDivisionError"]
              ELSE pc' = "post_save" /\ loc' = loc
    /\ UNCHANGED <<cfg, lcs, c_zp, out>>

\* post_pw, the output calls: save_freqs, save_freqs_as_latex_table, save_it
PostSave ==
    /\ pc = "post_save"
    /\ \E ok \in BOOLEAN :
        LET call == SaveIt(lcs, freqs, c_zp, ok)
        IN  /\ out' = out \o << [call EXCEPT !.op = "save_freqs"],
                                [call EXCEPT !.op = "save_freqs_as_latex_table"], call >>
            /\ IF call.raised
               THEN pc' = "raised" /\ loc' = [loc EXCEPT !.error = "save_it"]
               ELSE pc' = "done" /\ loc' = loc
    /\ UNCHANGED <<cfg, lcs, freqs, c_zp, hist>>

Next ==
    \/ AutoCall \/ AutoFor
    \/ ItPwIdPeak \/ SfPass \/ ItPwAddMf \/ ItPwSaveIt \/ ItPwNewLc
    \/ PostSig \/ PostUnc \/ PostSave

Spec == Init /\ [][Next]_vars

----------------------------------------------------------------------------
(* Periodogram.select_peak called directly                                 *)

\* the periodograms select_peak is called on: either grid, every amplitude
\* spectrum up to MaxAmp, with no fit stored or with both fits stored
SelectAmps == [1..Len(Grid) -> 0..MaxAmp]
StoredSlf == <<10, 2, 0, 0>>
StoredFits ==
    {[slf_p |-> None, log_polypar |-> None],
     [slf_p |-> Some(StoredSlf), log_polypar |-> Some([order |-> SigPolyOrder, level |-> 1])]}
\* the arguments of the call: a method (one of them not allowed), a
\* threshold, and no mask or any mask over the grid
SelectMethods == Methods \cup {"avg"}
SelectSigs == {0, 1}
SelectMasks == {None} \cup {Some(m) : m \in [1..Len(Grid) -> BOOLEAN]}

\* a PyWhitener under configuration c whose one light curve has the
\* periodogram pg, with the locals l of a caller by hand
Standalone(c, pg, l) ==
    /\ cfg = c
    /\ lcs = << [Lightcurve(Time, SubtractMean(CHOOSE d \in InputData : TRUE), InputErr,
                            pg.lsfreq, pg.lsamp) EXCEPT !.periodogram = pg] >>
    /\ freqs = FrequencyContainer
    /\ c_zp = 0
    /\ out = <<>>
    /\ loc = l
    /\ hist = NoHistory

InitSelectPeak ==
    /\ pc = "select_peak"
    /\ \E grid \in {GridFromZero, Grid}, amp \in SelectAmps, st \in StoredFits,
          method \in SelectMethods, sig \in SelectSigs, mask \in SelectMasks :
        Standalone(Config(0, 0, "highest", "mf", TRUE, FALSE, 0, 100),
                   [Periodogram(grid, amp) EXCEPT !.slf_p = st.slf_p,
                                                  !.log_polypar = st.log_polypar],
                   [NoLocals EXCEPT !.caller = "user",
                                    !.sp_args = Some([method |-> method, min_prov_sig |-> sig,
                                                      mask |-> mask])])

\* the call of select_peak on the periodogram: its return, or its ValueError
SelectPeakCall ==
    /\ pc = "select_peak"
    /\ \E slfpar \in SlfFits, level \in PolyLevels :
        LET args == Val(loc.sp_args)
            r == select_peak(lcs[1].periodogram, args.method, args.min_prov_sig, args.mask,
                             slfpar, level)
        IN  /\ lcs' = [lcs EXCEPT ![1].periodogram = r.pg]
            /\ pc' = (IF r.raised THEN "raised" ELSE "returned")
            /\ loc' = [loc EXCEPT !.cand = r.ret,
                                  !.error = IF r.raised THEN "ValueError" ELSE ""]
    /\ UNCHANGED <<cfg, freqs, c_zp, out, hist>>

NextSelectPeak == SelectPeakCall

SpecSelectPeak == InitSelectPeak /\ [][NextSelectPeak]_vars

----------------------------------------------------------------------------
(* Optimizer.single_frequency_optimization called directly                 *)

\* the start values of the call, phases in hundredths
SfStartPhases == {0, 50, 75}
\* the configured phase bounds
SfPhaseBounds == {<<0, 100>>, <<-100, 100>>}

InitSf ==
    /\ pc = "sf_fit"
    /\ \E check \in BOOLEAN, b \in SfPhaseBounds, f0 \in {0} \cup {Grid[i] : i \in 1..Len(Grid)},
          a0 \in 1..MaxAmp, p0 \in SfStartPhases :
        Standalone(Config(0, 0, "highest", "mf", TRUE, check, b[1], b[2]),
                   Periodogram(Grid, <<1, 3, 1>>),
                   [NoLocals EXCEPT
                     !.caller = "user",
                     !.sf_args = Some([x |-> Time,
                                       data |-> SubtractMean(CHOOSE d \in InputData : TRUE),
                                       err |-> InputErr, f0 |-> f0, a0 |-> a0, p0 |-> p0]),
                     !.initial_guess = <<f0, a0, p0>>])

NextSf == SfPass

SpecSf == InitSf /\ [][NextSf]_vars

----------------------------------------------------------------------------
(* Optimizer called directly: a sequence of single-frequency and joint fits *)

\* the largest number of optimizer calls the caller makes
MaxOptCalls == 3

\* the lists of records the caller hands to multi_frequency_optimization
OptRecords ==
    {<< Frequency(10, 2, 50, 0, "sin", 0) >>,
     << Frequency(10, 2, 50, 0, "sin", 0), Frequency(20, 1, 58, 0, "cos", 1) >>}

InitOptimizer ==
    /\ pc = "returned"
    /\ \E zp \in BOOLEAN, fl \in OptRecords :
        /\ cfg = Config(0, 0, "highest", "mf", zp, FALSE, 0, 100)
        /\ lcs = << Lightcurve(Time, SubtractMean(CHOOSE d \in InputData : TRUE), InputErr,
                               Grid, <<1, 3, 1>>) >>
        /\ freqs = [flist |-> fl, n |-> Len(fl)]
        /\ c_zp = 0
        /\ out = <<>>
        /\ loc = [NoLocals EXCEPT !.caller = "user"]
        /\ hist = NoHistory

\* the caller starts single_frequency_optimization on the light curve
OptSfCall ==
    /\ pc = "returned" /\ loc.caller = "user" /\ hist.calls < MaxOptCalls
    /\ \E f0 \in {Grid[i] : i \in 1..Len(Grid)}, p0 \in SfStartPhases :
        loc' = [loc EXCEPT !.op = "sf",
                           !.sf_args = Some([x |-> lcs[1].time, data |-> lcs[1].data,
                                             err |-> lcs[1].err, f0 |-> f0, a0 |-> 1, p0 |-> p0]),
                           !.initial_guess = <<f0, 1, p0>>,
                           !.hints = None, !.passes = 0, !.sf_res = None]
    /\ pc' = "sf_fit"
    /\ hist' = [hist EXCEPT !.calls = @ + 1]
    /\ UNCHANGED <<cfg, lcs, freqs, c_zp, out>>

\* the caller runs multi_frequency_optimization on the light curve and the
\* records held: hints, fit, write-back, c_zp, best fit
OptMfCall ==
    /\ pc = "returned" /\ loc.caller = "user" /\ hist.calls < MaxOptCalls
    /\ \E mv \in SolverMoves :
        LET fl == MfWriteBack(cfg, freqs.flist, mv)
            zp == MfZp(cfg, c_zp, mv)
        IN  /\ freqs' = [freqs EXCEPT !.flist = fl]
            /\ c_zp' = zp
            /\ loc' = [loc EXCEPT
                        !.op = "mf",
                        !.mf_args = Some([x |-> lcs[1].time, data |-> lcs[1].data,
                                          err |-> lcs[1].err,
                                          start |-> [i \in 1..Len(freqs.flist) |->
                                                        <<freqs.flist[i].f, freqs.flist[i].a,
                                                          freqs.flist[i].p>>],
                                          zp0 |-> MfZpHint(cfg, c_zp)]),
                        !.mf_res = Some([best |-> [i \in 1..Len(freqs.flist) |->
                                                     MfBest(cfg, freqs.flist[i], mv)],
                                         zpz |-> c_zp + mv.dz]),
                        !.mf_mod = Some(MfBestFit(cfg, fl, lcs[1].time, zp))]
    /\ pc' = "returned"
    /\ hist' = [hist EXCEPT !.calls = @ + 1]
    /\ UNCHANGED <<cfg, lcs, out>>

NextOptimizer == OptSfCall \/ SfPass \/ OptMfCall

SpecOptimizer == InitOptimizer /\ [][NextOptimizer]_vars

----------------------------------------------------------------------------
(* Periodogram: sequences of significance and evaluation calls             *)

\* the largest number of calls made on the periodograms
MaxPgCalls == 3

\* what curve_fit may return for the two noise models
PgSlfFits == SlfFits \cup {StoredSlf}
PgPolyLevels == {1, 2}
\* the configured periodograms.polyfit_order
PolyfitOrders == {3, 5}

InitPeriodogram ==
    /\ pc = "pg_idle"
    /\ \E order \in PolyfitOrders, grid \in {GridFromZero, Grid} :
        /\ cfg = [Config(0, 0, "highest", "mf", TRUE, FALSE, 0, 100)
                    EXCEPT !.polyfit_order = order]
        /\ lcs = << Lightcurve(Time, SubtractMean(CHOOSE d \in InputData : TRUE), InputErr,
                               grid, <<1, 3, 1>>),
                    Lightcurve(Time, SubtractMean(CHOOSE d \in InputData : TRUE), InputErr,
                               Grid, <<1, 1, 1>>) >>
    /\ freqs = FrequencyContainer
    /\ c_zp = 0
    /\ out = <<>>
    /\ loc = [NoLocals EXCEPT !.caller = "user"]
    /\ hist = NoHistory

\* the state after operation op on periodogram k gave the result r
PgCalled(op, k, r) ==
    /\ lcs' = [lcs EXCEPT ![k].periodogram = r.pg]
    /\ pc' = (IF r.raised THEN "raised" ELSE "pg_idle")
    /\ loc' = [loc EXCEPT !.op = op, !.i = k,
                          !.error = IF r.raised THEN "ValueError" ELSE ""]
    /\ hist' = [hist EXCEPT !.calls = @ + 1]
    /\ UNCHANGED <<cfg, freqs, c_zp, out>>

PgCanCall == pc = "pg_idle" /\ hist.calls < MaxPgCalls

PgSigSlf ==
    /\ PgCanCall
    /\ \E k \in 1..Len(lcs), slfpar \in PgSlfFits :
        PgCalled("sig_slf", k, sig_slf(lcs[k].periodogram, Grid[2], 1, slfpar))

PgSigPoly ==
    /\ PgCanCall
    /\ \E k \in 1..Len(lcs), level \in PgPolyLevels :
        PgCalled("sig_poly", k, sig_poly(lcs[k].periodogram, Grid[2], 1, level))

PgSelectPeak ==
    /\ PgCanCall
    /\ \E k \in 1..Len(lcs), method \in Methods, slfpar \in PgSlfFits, level \in PgPolyLevels :
        PgCalled("select_peak", k,
                 select_peak(lcs[k].periodogram, method, 1, None, slfpar, level))

PgEvalSlf ==
    /\ PgCanCall
    /\ \E k \in 1..Len(lcs), slfpar \in PgSlfFits :
        PgCalled("eval_slf_model", k, eval_slf_model(lcs[k].periodogram, Grid[2], slfpar))

PgEvalPoly ==
    /\ PgCanCall
    /\ \E k \in 1..Len(lcs), level \in PgPolyLevels :
        PgCalled("eval_poly_model", k,
                 eval_poly_model(lcs[k].periodogram, Grid[2], cfg.polyfit_order, level))

NextPeriodogram == PgSigSlf \/ PgSigPoly \/ PgSelectPeak \/ PgEvalSlf \/ PgEvalPoly

SpecPeriodogram == InitPeriodogram /\ [][NextPeriodogram]_vars

----------------------------------------------------------------------------
(* Periodogram: the box-average significances called directly              *)

\* a grid of eight points, in tenths, assumed sorted as np.linspace gives it
BoxGrid == <<10, 20, 30, 40, 50, 60, 70, 80>>
\* the amplitude spectra on it
BoxAmps ==
    [1..Len(BoxGrid) -> 1..2]
        \cup {<<1, 2, 3, 2, 1, 2, 3, 1>>, <<2, 1, 2, 3, 2, 1, 1, 1>>, <<3, 2, 1, 2, 3, 2, 1, 2>>}
\* the averaging radii, in tenths
BoxRadii == {23, 27, 30}
\* the target frequencies: grid points, and points off the grid
BoxTargets == {BoxGrid[i] : i \in 1..Len(BoxGrid)} \cup {37, 43, 5, 85}

InitBox ==
    /\ pc = "box_call"
    /\ \E amp \in BoxAmps, f \in BoxTargets, bin_r \in BoxRadii :
        Standalone(Config(0, 0, "highest", "mf", TRUE, FALSE, 0, 100),
                   Periodogram(BoxGrid, amp),
                   [NoLocals EXCEPT !.caller = "user",
                                    !.sp_args = Some([f |-> f, a |-> 2, bin_r |-> bin_r])])

\* the state after the box significance `op` gave r
BoxReturned(op, r) ==
    /\ pc' = (IF r.raised THEN "raised" ELSE "returned")
    /\ loc' = [loc EXCEPT !.op = op, !.cand = <<r.sig, None>>,
                          !.error = IF r.raised THEN "raised" ELSE ""]
    /\ UNCHANGED <<cfg, lcs, freqs, c_zp, out, hist>>

BoxSigBox ==
    /\ pc = "box_call"
    /\ LET a == Val(loc.sp_args)
       IN  BoxReturned("sig_box", sig_box(lcs[1].periodogram, a.f, a.a, a.bin_r))

BoxPeakSigBox ==
    /\ pc = "box_call"
    /\ LET a == Val(loc.sp_args)
           r == peak_sig_box(lcs[1].periodogram, a.f, a.a, a.bin_r)
       IN  BoxReturned("peak_sig_box", [raised |-> r.raised, sig |-> r.sig])

\* find_troughs(center) for the index of a grid frequency
BoxFindTroughs ==
    /\ pc = "box_call"
    /\ ~IsNone(IndexOfFreq(lcs[1].periodogram, Val(loc.sp_args).f))
    /\ LET center == Val(IndexOfFreq(lcs[1].periodogram, Val(loc.sp_args).f))
           r == find_troughs(lcs[1].periodogram, center)
       IN  BoxReturned("find_troughs",
                       [raised |-> r.raised, sig |-> Some(<<r.left_i, r.right_i>>)])

\* find_index_of_freq(t)
BoxFindIndex ==
    /\ pc = "box_call"
    /\ BoxReturned("find_index_of_freq",
                   [raised |-> FALSE,
                    sig |-> Some(find_index_of_freq(lcs[1].periodogram, Val(loc.sp_args).f))])

NextBox == BoxSigBox \/ BoxPeakSigBox \/ BoxFindTroughs \/ BoxFindIndex

SpecBox == InitBox /\ [][NextBox]_vars

----------------------------------------------------------------------------
(* FrequencyContainer called directly                                      *)

MaxContainerCalls == 3

\* FrequencyContainer.__init__ with the records freqs, all of type Frequency
FrequencyContainerOf(fl) == [flist |-> fl, n |-> Len(fl)]

\* list.pop(index): a negative index counts from the end; raised stands for
\* IndexError, which leaves the list as it was
ListPop(fl, index) ==
    LET j == IF index < 0 THEN index + Len(fl) ELSE index
    IN  IF j < 0 \/ j >= Len(fl) THEN [raised |-> TRUE, list |-> fl]
        ELSE [raised |-> FALSE,
              list |-> [k \in 1..(Len(fl) - 1) |-> IF k <= j THEN fl[k] ELSE fl[k + 1]]]

\* del_frequency with the count taken down before the pop
DelFrequencyCountsFirst(fc, index) ==
    LET r == ListPop(fc.flist, index)
    IN  [fc |-> [flist |-> r.list, n |-> fc.n - 1], raised |-> r.raised]

\* FrequencyContainer.del_frequency: the pop, then the count
del_frequency(fc, index) ==
    LET r == ListPop(fc.flist, index)
    IN  [fc |-> [flist |-> r.list, n |-> IF r.raised THEN fc.n ELSE fc.n - 1],
         raised |-> r.raised]

\* the loop of mf_model from record k on: sin_model of each record's
\* get_parameters()
RECURSIVE MfModelFrom(_, _, _)
MfModelFrom(flist, time, k) ==
    IF k > Len(flist) THEN [i \in 1..Len(time) |-> 0]
    ELSE VecAdd(sin_model(time, flist[k].f, flist[k].a, flist[k].p),
                MfModelFrom(flist, time, k + 1))

\* FrequencyContainer.mf_model
mf_model(fc, time, zp) ==
    LET y == MfModelFrom(fc.flist, time, 1)
    IN  [i \in 1..Len(time) |-> y[i] + zp]

\* the records a caller holds
ContainerRecords == {Frequency(10, 2, 50, 0, "sin", 0), Frequency(20, 1, 58, 0, "cos", 1)}
\* the positions a caller asks to delete
PopIndices == -3..3
\* the offsets a caller passes to mf_model, in hundredths
ZeroPoints == {0, 5}

InitContainer ==
    /\ pc = "ct_idle"
    /\ \E fl \in {<<>>} \cup {<<r>> : r \in ContainerRecords}
                   \cup {<<r, q>> : r \in ContainerRecords, q \in ContainerRecords} :
        /\ cfg = Config(0, 0, "highest", "mf", TRUE, FALSE, 0, 100)
        /\ lcs = << Lightcurve(Time, SubtractMean(CHOOSE d \in InputData : TRUE), InputErr,
                               Grid, <<1, 3, 1>>) >>
        /\ freqs = FrequencyContainerOf(fl)
        /\ c_zp = 0
        /\ out = <<>>
        /\ loc = [NoLocals EXCEPT !.caller = "user"]
        /\ hist = NoHistory

\* the state after the container call `op`; an exception is left to the
\* caller, who goes on with the same container
ContainerCalled(op, fc, l, raised) ==
    /\ pc' = "ct_idle"
    /\ freqs' = fc
    /\ loc' = [l EXCEPT !.op = op, !.error = IF raised THEN "IndexError" ELSE ""]
    /\ hist' = [hist EXCEPT !.calls = @ + 1]
    /\ UNCHANGED <<cfg, lcs, c_zp, out>>

CtAdd ==
    /\ pc = "ct_idle" /\ hist.calls < MaxContainerCalls
    /\ \E r \in ContainerRecords :
        ContainerCalled("add_frequency", add_frequency(freqs, r), loc, FALSE)

CtDel ==
    /\ pc = "ct_idle" /\ hist.calls < MaxContainerCalls
    /\ \E index \in PopIndices :
        LET r == del_frequency(freqs, index)
        IN  ContainerCalled("del_frequency", r.fc, [loc EXCEPT !.i = index], r.raised)

CtMfModel ==
    /\ pc = "ct_idle" /\ hist.calls < MaxContainerCalls
    /\ \E zp \in ZeroPoints :
        ContainerCalled("mf_model", freqs,
                        [loc EXCEPT !.mf_args = Some([x |-> lcs[1].time, zp |-> zp]),
                                    !.mf_mod = Some(mf_model(freqs, lcs[1].time, zp))],
                        FALSE)

\* Frequency.update
update(freq, f, a, p) == [freq EXCEPT !.f = f, !.a = a, !.p = p]

\* adjust_params with the amplitude negated and the phase left as it was
AdjustWithoutShift(freq) ==
    LET a1 == IF freq.a < 0 THEN -freq.a ELSE freq.a
        p1 == freq.p
    IN  [freq EXCEPT !.a = a1, !.p = IF p1 > 100 \/ p1 < 0 THEN p1 % 100 ELSE p1]

\* Frequency.adjust_params; phases in hundredths of a cycle
adjust_params(freq) ==
    LET a1 == IF freq.a < 0 THEN -freq.a ELSE freq.a
        p1 == IF freq.a < 0 THEN freq.p + 50 ELSE freq.p
    IN  [freq EXCEPT !.a = a1, !.p = IF p1 > 100 \/ p1 < 0 THEN p1 % 100 ELSE p1]

\* the parameters a caller hands to update: f in tenths, p in hundredths
UpdateValues == {<<22, -2, 30>>, <<22, -2, 5530>>, <<12, 1, -20>>, <<12, 1, 100>>}

\* update on the record at position k of the container
CtUpdate ==
    /\ pc = "ct_idle" /\ hist.calls < MaxContainerCalls
    /\ \E k \in 1..Len(freqs.flist), v \in UpdateValues :
        ContainerCalled("update",
                        [freqs EXCEPT !.flist[k] = update(@, v[1], v[2], v[3])],
                        [loc EXCEPT !.i = k], FALSE)

\* adjust_params on the record at position k of the container
CtAdjust ==
    /\ pc = "ct_idle" /\ hist.calls < MaxContainerCalls
    /\ \E k \in 1..Len(freqs.flist) :
        ContainerCalled("adjust_params",
                        [freqs EXCEPT !.flist[k] = adjust_params(@)],
                        [loc EXCEPT !.i = k], FALSE)

NextContainer == CtAdd \/ CtDel \/ CtMfModel \/ CtUpdate \/ CtAdjust

SpecContainer == InitContainer /\ [][NextContainer]_vars

----------------------------------------------------------------------------
(* Periodogram.__init__ and Lightcurve.__init__ called directly            *)

\* p_resolution = 1.5/T in tenths, for the spans T that divide 15
Resolution(T) == 15 \div T

\* int(abs(ll - ul)/p_resolution) for bounds in tenths and the span T > 0
GridCount(ll, ul, T) == (Abs(ll - ul) * T) \div 15

\* np.linspace(ll, ul, num).  For num >= 2 the values are kept in units of
\* 1/(num - 1) of a tenth, which keeps their order and their number
linspace(ll, ul, num) ==
    IF num = 0 THEN <<>>
    ELSE IF num = 1 THEN <<ll>>
    ELSE [i \in 1..num |-> ll * (num - 1) + (i - 1) * (ul - ll)]

\* the integer square root
Isqrt(x) == CHOOSE r \in 0..x : r * r <= x /\ x < (r + 1) * (r + 1)

\* the pseudo-power spectrum LombScargle(...).power gives on num grid
\* points for n samples: one of three shapes
LsPower(num, n, shape) ==
    [i \in 1..num |-> CASE shape = "peaks" -> n * (i % 3) * (i % 3)
                        [] shape = "zero" -> 0
                        [] OTHER -> 0 - n]

\* lsamp = 2 * (abs(lspower) / len(time)) ** 0.5
AmpOfPower(lspower, n) == [i \in 1..Len(lspower) |-> 2 * Isqrt(Abs(lspower[i]) \div n)]

\* Periodogram.__init__ on the series time.  a: the arguments (aslist: time
\* is a Python list and not an ndarray; lsfreq: None for "auto" or the grid
\* given; fbounds; pts_per_res), c: the configuration, in which a lower
\* limit None stands for "resolution".  ls: what LombScargle does; it is
\* free to raise only on input it is not written for, a series without
\* span or an empty grid.  A nan is <<0, 0>>
PeriodogramInit(time, a, c, ls) ==
    LET T == t_span([time |-> time])
        auto == IsNone(a.lsfreq)
        given == ~IsNone(a.fbounds)
        inf_ll == auto /\ ~given /\ IsNone(c.lower_limit)
        ll == IF given THEN Val(a.fbounds)[1]
              ELSE IF IsNone(c.lower_limit) THEN Resolution(T) ELSE Val(c.lower_limit)
        ul == IF given THEN Val(a.fbounds)[2] ELSE c.upper_limit
        num == IF T = 0 THEN 0 ELSE a.pts_per_res * GridCount(ll, ul, T)
        grid == IF auto THEN linspace(ll, ul, num) ELSE Val(a.lsfreq)
        amp == IF T = 0 THEN [i \in 1..Len(grid) |-> <<0, 0>>]
               ELSE AmpOfPower(LsPower(Len(grid), Len(time), ls.shape), Len(time))
        Raise(e) == [raised |-> TRUE, error |-> e, pg |-> None]
    IN  IF Len(time) = 0 THEN Raise("ValueError: max() arg is an empty sequence")
        ELSE IF T = 0 /\ a.aslist THEN Raise("ZeroDivisionError: float division by zero")
        ELSE IF T = 0 /\ inf_ll THEN Raise("ValueError: cannot convert float NaN to integer")
        ELSE IF (T = 0 \/ Len(grid) = 0) /\ ls.raises THEN Raise("LombScargle")
        ELSE [raised |-> FALSE, error |-> "", pg |-> Some(Periodogram(grid, amp))]

\* the time series handed to the constructors
NewTimes == {<<>>, <<2>>, <<1, 1>>, <<0, 3>>, <<0, 2, 5>>, <<0, 1, 3>>}
\* points_per_resolution_element, as argument and as default
PtsPerRes == {1, 2}
\* fbounds arguments, in tenths
FBounds == {None, Some(<<5, 7>>), Some(<<0, 20>>)}
\* what LombScargle may do
LsOutcomes == [raises : BOOLEAN, shape : {"peaks", "zero", "negative"}]

InitNew ==
    /\ pc = "new"
    /\ \E time \in NewTimes, lower \in {None, Some(0)}, upper \in {10, 20} :
        /\ cfg = Config(0, 0, "highest", "mf", TRUE, FALSE, 0, 100)
                    @@ [lower_limit |-> lower, upper_limit |-> upper]
        /\ loc = [NoLocals EXCEPT !.caller = "user", !.sf_args = Some([x |-> time])]
    /\ lcs = <<>>
    /\ freqs = FrequencyContainer
    /\ c_zp = 0
    /\ out = <<>>
    /\ hist = NoHistory

\* the state after a constructor: the object built, or the exception
NewReturned(op, a, time, r) ==
    /\ pc' = (IF r.raised THEN "raised" ELSE "built")
    /\ lcs' = (IF r.raised THEN <<>>
               ELSE << [time |-> time, data |-> [i \in 1..Len(time) |-> i % 2],
                        err |-> [i \in 1..Len(time) |-> 1], periodogram |-> Val(r.pg)] >>)
    /\ loc' = [loc EXCEPT !.op = op, !.sp_args = Some(a), !.error = r.error]
    /\ UNCHANGED <<cfg, freqs, c_zp, out, hist>>

\* Periodogram(time, data, lsfreq, fbounds, pts_per_res, cfg)
NewPeriodogram ==
    /\ pc = "new"
    /\ \E aslist \in BOOLEAN, lsfreq \in {None, Some(Grid)}, fbounds \in FBounds,
          pts \in PtsPerRes, ls \in LsOutcomes :
        LET time == Val(loc.sf_args).x
            a == [aslist |-> aslist, lsfreq |-> lsfreq, fbounds |-> fbounds,
                  pts_per_res |-> pts]
        IN  NewReturned("Periodogram", a, time, PeriodogramInit(time, a, cfg, ls))

\* Lightcurve(time, data, cfg=cfg): the series as ndarrays, then
\* Periodogram(self.time, self.data, cfg=cfg) with the default arguments
NewLightcurve ==
    /\ pc = "new"
    /\ \E pts \in PtsPerRes, ls \in LsOutcomes :
        LET time == Val(loc.sf_args).x
            a == [aslist |-> FALSE, lsfreq |-> None, fbounds |-> None, pts_per_res |-> pts]
        IN  NewReturned("Lightcurve", a, time, PeriodogramInit(time, a, cfg, ls))

NextNew == NewPeriodogram \/ NewLightcurve

SpecNew == InitNew /\ [][NextNew]_vars

----------------------------------------------------------------------------
(* Properties                                                              *)

ItPwStages == {"id_peak", "sf_fit", "add_mf", "save_it", "new_lc"}
Terminated == pc \in {"done", "raised"}

\* the statement the program is at can execute: the solver has an outcome
\* to return (every other step has no precondition beyond its position)
Runnable ==
    /\ pc \in ItPwStages \cup {"idle", "auto_for", "post_pw", "post_unc", "post_save"}
    /\ pc = "idle" => hist.calls = 0 /\ loc.caller = "none"
    /\ pc = "sf_fit" =>
        LET a == Val(loc.sf_args) IN SfOutcomes(SfHints(cfg, a.f0, a.a0, a.p0)) # {}

AutoBounded ==
    /\ Terminated \/ Runnable
    /\ hist.calls <= cfg.cutoff_iteration
    /\ Len(freqs.flist) <= hist.calls
    /\ \A k \in 1..Len(hist.flags) :
        hist.flags[k] = 1 => k = Len(hist.flags) /\ pc \notin ItPwStages \cup {"auto_for"}
    /\ pc = "done" => Len(freqs.flist) <= cfg.cutoff_iteration

\* C1: auto() calls it_pw at most cutoff_iteration times; once an it_pw call
\* has returned 1 no further iteration starts; auto() terminates: it takes
\* finitely many steps, and where it is not finished (returned or raised)
\* its next statement can execute; when it has returned the collection
\* holds at most cutoff_iteration records.
C1_AutoBoundedAndTerminates == []AutoBounded /\ <>[][FALSE]_vars

\* auto() returned after the selector ended the loop with a record held
C1_ReturnedAfterSelectorStop ==
    /\ pc = "done" /\ Len(freqs.flist) >= 1
    /\ hist.flags # <<>> /\ Last(hist.flags) = 1

SeriesUnchanged ==
    /\ Len(lcs') = Len(lcs)
    /\ \A k \in 1..Len(lcs) :
        /\ lcs'[k].time = lcs[k].time /\ lcs'[k].data = lcs[k].data /\ lcs'[k].err = lcs[k].err
        /\ lcs'[k].periodogram.lsfreq = lcs[k].periodogram.lsfreq
        /\ lcs'[k].periodogram.lsamp = lcs[k].periodogram.lsamp

\* C2: the step of it_pw that selects the peak returns 1 when the selection
\* gave (None, None), and then no fit has run, the collection, the light
\* curves, c_zp and the output calls are as before; any other selection,
\* a frequency of 0 included, goes on to the single-frequency fit; and no
\* other step of it_pw returns 1.
C2_ReturnOneExactlyOnNoPeak ==
    [][ /\ (pc = "id_peak" /\ pc' # "raised") =>
             IF loc'.cand = <<None, None>>
             THEN /\ loc'.flag = Some(1)
                  /\ hist'.flags = Append(hist.flags, 1)
                  /\ pc' \notin ItPwStages
                  /\ loc'.passes = loc.passes /\ loc'.sf_res = loc.sf_res
                  /\ loc'.mf_args = loc.mf_args /\ loc'.mf_mod = loc.mf_mod
                  /\ freqs' = freqs /\ SeriesUnchanged /\ c_zp' = c_zp /\ out' = out
             ELSE /\ pc' = "sf_fit" /\ hist'.flags = hist.flags
                  /\ Val(loc'.sf_args).f0 = Val(loc'.cand[1])
        /\ (hist'.flags # hist.flags /\ Last(hist'.flags) = 1) =>
             pc = "id_peak" /\ loc'.cand = <<None, None>>
      ]_vars

\* it_pw fitted a candidate of frequency 0 and the next call returned 1
C2_ZeroFrequencyFittedThenNoPeak ==
    /\ hist.flags = <<0, 1>> /\ loc.cand = <<None, None>>
    /\ Val(loc.sf_args).f0 = 0 /\ Len(freqs.flist) = 1

Untouched(freq) ==
    /\ freq.sig_slf = <<0, 1>> /\ freq.sig_poly = <<0, 1>> /\ freq.sig_avg = <<0, 1>>
    /\ IsNone(freq.sig_box)
    /\ IsNone(freq.sigma_f) /\ IsNone(freq.sigma_a) /\ IsNone(freq.sigma_p)

SignificantAgainst(freq, pg) ==
    /\ freq.sig_slf = RatioOver(freq.a, slf_noise(freq.f, Val(pg.slf_p)))
    /\ freq.sig_box = sig_box(pg, freq.f, freq.a, BinR).sig
    /\ freq.sig_poly = RatioOver(freq.a, poly_level(freq.f, Val(pg.log_polypar)))

UncertainFrom(freq, lc) ==
    \A u \in {freq.sigma_f, freq.sigma_a, freq.sigma_p} :
        ~IsNone(u) /\ Val(u).std_of = lc.data /\ Val(u).N_eff = measure_N_eff(lc)

\* C3: post-processing starts at most once, only when the loop has ended (by
\* a returned 1 or by the cap); while the loop runs no record carries a
\* significance or an uncertainty; once computed, the three significances
\* of every record are those against the periodogram of the last light
\* curve and the uncertainties are those from the last light curve.
C3_PostProcessingOnceOnLast ==
    /\ hist.post <= 1
    /\ pc \in ItPwStages \cup {"idle", "auto_for", "post_pw"} =>
        hist.post = 0 /\ \A k \in 1..Len(freqs.flist) : Untouched(freqs.flist[k])
    /\ pc = "post_pw" =>
        \/ hist.flags # <<>> /\ Last(hist.flags) = 1
        \/ hist.calls = cfg.cutoff_iteration
    /\ pc \in {"post_unc", "post_save", "done"} =>
        /\ hist.post = 1 /\ hist.sig_lc = Len(lcs)
        /\ \A k \in 1..Len(freqs.flist) :
            SignificantAgainst(freqs.flist[k], Last(lcs).periodogram)
    /\ pc \in {"post_save", "done"} =>
        /\ hist.unc_lc = Len(lcs)
        /\ \A k \in 1..Len(freqs.flist) : UncertainFrom(freqs.flist[k], Last(lcs))

\* auto() returned after two iterations that each appended a light curve
C3_ReturnedAfterTwoResiduals ==
    /\ pc = "done" /\ Len(lcs) = 3 /\ Len(freqs.flist) = 2
    /\ lcs[3].data # lcs[1].data

\* C4: from the first pass of the single-frequency fit to the end of the
\* it_pw call, the fit was handed the last light curve, the candidate
\* frequency and amplitude and the phase 0.5, and every pass starts from
\* these; the joint fit was handed the first light curve and one start
\* triple per record held, the last one the single-frequency result.
C4_FitInputs ==
    /\ (pc \in {"sf_fit", "add_mf", "save_it", "new_lc"} /\ loc.caller = "auto") =>
        LET a == Val(loc.sf_args)
        IN  /\ a.x = Last(lcs).time /\ a.data = Last(lcs).data /\ a.err = Last(lcs).err
            /\ a.f0 = Val(loc.cand[1]) /\ a.a0 = Val(loc.cand[2]) /\ a.p0 = 50
            /\ ~IsNone(loc.hints) =>
                /\ Val(loc.hints).f.value = a.f0 /\ Val(loc.hints).a.value = a.a0
                /\ Val(loc.hints).p.value = 50
    /\ (pc \in {"save_it", "new_lc"} /\ loc.caller = "auto") =>
        LET m == Val(loc.mf_args)
            r == Val(loc.sf_res)
        IN  /\ m.x = lcs[1].time /\ m.data = lcs[1].data /\ m.err = lcs[1].err
            /\ Len(m.start) = Len(freqs.flist) /\ Len(m.start) = hist.calls
            /\ Last(m.start) = <<r.f, r.a, r.p>>

\* a second iteration under the 'sf' policy has run both fits, the last
\* light curve differing from the first
C4_SecondIterationFitted ==
    /\ pc = "new_lc" /\ Len(lcs) = 2 /\ lcs[2].data # lcs[1].data
    /\ cfg.new_lc_generation_method = "sf"

\* C5: the last step of it_pw appends, under 'mf', one light curve on the
\* first time axis with data lcs[0].data minus the joint model of the
\* records, and under 'sf' one with the last light curve's data minus the
\* single-frequency model, and returns 0; under any other policy it appends
\* nothing and returns 2.
C5_ResidualByPolicy ==
    [][ pc = "new_lc" =>
            LET policy == cfg.new_lc_generation_method
                r == Val(loc.sf_res)
                appended ==
                    /\ Len(lcs') = Len(lcs) + 1
                    /\ \A k \in 1..Len(lcs) : lcs'[k] = lcs[k]
                    /\ Last(lcs').time = lcs[1].time
                    /\ loc'.flag = Some(0) /\ hist'.flags = Append(hist.flags, 0)
            IN  IF policy = "mf"
                THEN /\ appended
                     /\ Last(lcs').data =
                            VecSub(lcs[1].data, MfBestFit(cfg, freqs.flist, lcs[1].time, c_zp))
                ELSE IF policy = "sf"
                THEN /\ appended
                     /\ Last(lcs').data =
                            VecSub(Last(lcs).data,
                                   ModelFunction(cfg.frequency_model_type, Last(lcs).time,
                                                 r.f, r.a, r.p))
                ELSE /\ lcs' = lcs
                     /\ loc'.flag = Some(2) /\ hist'.flags = Append(hist.flags, 2)
      ]_vars

\* two successful iterations under 'mf', the second light curve differing
\* from the first
C5_TwoJointResiduals ==
    /\ Len(lcs) = 3 /\ cfg.new_lc_generation_method = "mf"
    /\ hist.flags = <<0, 0>> /\ lcs[2].data # lcs[1].data

\* C6: the k-th peak selection of auto() (iteration k - 1) is made with
\* 'highest' when k - 1 < peak_selection_highest_override and with the
\* configured method otherwise, and always with the configured cutoff
\* significance.
C6_MethodOfIteration ==
    /\ Len(hist.selects) <= hist.calls
    /\ \A k \in 1..Len(hist.selects) :
        /\ hist.selects[k].method =
            (IF k - 1 < cfg.peak_selection_highest_override
             THEN "highest" ELSE cfg.peak_selection_method)
        /\ hist.selects[k].min_prov_sig = cfg.peak_selection_cutoff_sig

\* an overridden first iteration followed by one with the configured method
C6_OverrideThenConfigured ==
    /\ Len(hist.selects) = 2
    /\ hist.selects[1].method = "highest" /\ hist.selects[2].method = "poly"

\* C7: the record at position i (from 0) of the collection has n = i, and
\* the collection's count is its length.
C7_OrdinalIsPosition ==
    /\ freqs.n = Len(freqs.flist)
    /\ \A k \in 1..Len(freqs.flist) : freqs.flist[k].n = k - 1

\* two records are held
C7_TwoRecords == Len(freqs.flist) = 2 /\ hist.calls = 2

SelectArgs == Val(loc.sp_args)
SelectReturned == pc = "returned" /\ ~IsNone(loc.sp_args)
MaskAllFalse == ~IsNone(SelectArgs.mask) /\ \A i \in 1..Len(Grid) : ~Val(SelectArgs.mask)[i]
MaskKeeps(i) == IsNone(SelectArgs.mask) \/ Val(SelectArgs.mask)[i]

\* the significance of grid point i under the model of the method is above
\* the threshold of the call
PointSignificant(i) ==
    LET pg == lcs[1].periodogram
    IN  IF SelectArgs.method = "slf"
        THEN RatioAbove(pg.lsamp[i], slf_noise(pg.lsfreq[i], Val(pg.slf_p)),
                        SelectArgs.min_prov_sig)
        ELSE RatioAbove(pg.lsamp[i], poly_level(pg.lsfreq[i], Val(pg.log_polypar)),
                        SelectArgs.min_prov_sig)

InWorkingMask(i) == MaskKeeps(i) /\ (SelectArgs.method = "highest" \/ PointSignificant(i))

\* C8: when select_peak returns, it returns (None, None) if no grid point
\* is in the working mask (kept by the caller's mask and, for 'slf' and
\* 'poly', of significance above min_prov_sig), and otherwise the frequency
\* and amplitude of a point of the working mask whose amplitude is the
\* maximum over the working mask.
C8_MaxOverWorkingMask ==
    SelectReturned =>
        LET pg == lcs[1].periodogram
            working == {i \in 1..Len(pg.lsfreq) : InWorkingMask(i)}
        IN  IF working = {}
            THEN loc.cand = <<None, None>>
            ELSE \E i \in working :
                    /\ \A j \in working : pg.lsamp[j] <= pg.lsamp[i]
                    /\ loc.cand = <<Some(pg.lsfreq[i]), Some(pg.lsamp[i])>>

\* 'slf' returned a peak while a point outside the working mask is higher
C8_PeakBelowExcludedPoint ==
    /\ SelectReturned /\ SelectArgs.method = "slf" /\ ~IsNone(SelectArgs.mask)
    /\ ~IsNone(loc.cand[2])
    /\ \E i \in 1..Len(Grid) : ~InWorkingMask(i) /\ lcs[1].periodogram.lsamp[i] > Val(loc.cand[2])

\* C9 as stated: a return of (None, None) means the caller's mask is
\* all-false or no grid point at all has significance above min_prov_sig.
C9_NoneMeansNoSignificantPoint ==
    (SelectReturned /\ loc.cand = <<None, None>>) =>
        \/ MaskAllFalse
        \/ /\ SelectArgs.method \in {"slf", "poly"}
           /\ \A i \in 1..Len(Grid) : ~PointSignificant(i)

\* C9, amended: a return of (None, None) means the caller's mask is
\* all-false or no grid point that the caller's mask keeps has
\* significance above min_prov_sig under the model of the method.
C9_NoneMeansNoKeptSignificantPoint ==
    (SelectReturned /\ loc.cand = <<None, None>>) =>
        \/ MaskAllFalse
        \/ /\ SelectArgs.method \in {"slf", "poly"}
           /\ \A i \in 1..Len(Grid) : MaskKeeps(i) => ~PointSignificant(i)

\* 'poly' returned (None, None) under a mask that keeps a point, while a
\* point the mask drops is significant
C9_NoneWithSignificantPointMasked ==
    /\ SelectReturned /\ loc.cand = <<None, None>> /\ SelectArgs.method = "poly"
    /\ \E i \in 1..Len(Grid) : MaskKeeps(i)
    /\ \E j \in 1..Len(Grid) : ~MaskKeeps(j) /\ PointSignificant(j)

\* C10: with the phase check enabled, the phase single_frequency_optimization
\* returns is at least 0.1 cycles from the caller's p0.
C10_ReturnedPhaseMovedFromP0 ==
    (pc = "returned" /\ ~IsNone(loc.sf_res) /\ cfg.sf_phase_value_check) =>
        Abs(Val(loc.sf_res).p - Val(loc.sf_args).p0) >= 10

SfCall == Val(loc.sf_args)

\* C11: on every pass of single_frequency_optimization after the first, the
\* phase hint starts from p0 + 0.17 * (number of retries so far), and the
\* frequency and amplitude start values and every bound are those of the
\* first pass.
C11_RetryStartsFromPerturbedPhase ==
    (loc.caller = "user" /\ ~IsNone(loc.sf_args) /\ ~IsNone(loc.hints)) =>
        LET h == Val(loc.hints)
            first == SfHints(cfg, SfCall.f0, SfCall.a0, SfCall.p0)
        IN  /\ h.p.value = SfCall.p0 + PhaseStep * (loc.passes - 1)
            /\ h.f = first.f /\ h.a = first.a
            /\ h.p.min100 = first.p.min100 /\ h.p.max100 = first.p.max100

\* the fit returns a phase and the loop is where its position says it is
SfBounded ==
    /\ pc \in {"sf_fit", "returned", "raised"}
    /\ pc = "sf_fit" =>
        /\ SfOutcomes(SfHints(cfg, SfCall.f0, SfCall.a0, SfCall.p0)) # {}
        /\ loc.initial_guess[3] = SfCall.p0 + 17 * loc.passes
        /\ loc.passes >= 1 =>
            /\ cfg.sf_phase_value_check
            /\ SfCall.p0 + 17 * (loc.passes - 1) < cfg.phase_upper + 10
    /\ ~cfg.sf_phase_value_check => loc.passes <= 1
    /\ pc = "returned" =>
        /\ loc.passes >= 1
        /\ cfg.phase_lower <= Val(loc.sf_res).p /\ Val(loc.sf_res).p <= cfg.phase_upper

\* C12: single_frequency_optimization takes finitely many steps and is never
\* stuck before it returns or raises; with the phase check disabled it
\* returns after its first fit; with it enabled a further pass is made only
\* while p0 + 0.17 * (passes made - 1) is below phase_upper + 0.1, the fitted
\* phase lying within the phase bounds.
C12_SingleFrequencyFitTerminates == []SfBounded /\ <>[][FALSE]_vars

\* the call returned after three retries
C12_ReturnedAfterThreeRetries ==
    pc = "returned" /\ loc.caller = "user" /\ ~IsNone(loc.sf_res) /\ loc.passes = 4

Triple(r) == <<r.f, r.a, r.p>>
Retained(r) == <<r.f0, r.a0, r.p0, r.n, r.t0, r.model_function>>

\* C13: the step that appends the new record and runs the joint fit starts
\* term i from the current (f, a, p) of record i, writes the best values of
\* term i into f, a, p of record i, keeps the records in their order with
\* the new one last, and leaves f0, a0, p0, n and t0 of every record as
\* they were at its construction.
C13_JointFitWritesBackInPlace ==
    [][ (pc = "add_mf" /\ loc.caller = "auto") =>
            LET old == freqs.flist
                new == freqs'.flist
                n == Len(old)
                args == Val(loc'.mf_args)
                res == Val(loc'.mf_res)
                sf == Val(loc.sf_res)
            IN  /\ Len(new) = n + 1 /\ Len(args.start) = n + 1 /\ Len(res.best) = n + 1
                /\ \A i \in 1..n : args.start[i] = Triple(old[i])
                /\ args.start[n + 1] = Triple(sf)
                /\ \A i \in 1..(n + 1) : Triple(new[i]) = Triple(res.best[i])
                /\ \A i \in 1..n : Retained(new[i]) = Retained(old[i])
                /\ Retained(new[n + 1]) =
                        <<sf.f, sf.a, sf.p, n, cfg.input_t0, cfg.frequency_model_type>>
      ]_vars

\* a second joint fit has moved the first record away from its start values
C13_FirstRecordMovedTwice ==
    /\ pc = "save_it" /\ Len(freqs.flist) = 2
    /\ freqs.flist[1].f # freqs.flist[1].f0 /\ freqs.flist[1].p # freqs.flist[1].p0
    /\ Triple(freqs.flist[1]) # Val(loc.mf_args).start[1]

\* C14: c_zp is 0 before the first optimizer call; a joint fit with
\* mf_include_zp starts its offset term from the current c_zp and leaves
\* c_zp at the fitted offset; without mf_include_zp the joint model has no
\* offset term and c_zp is unchanged; no step of a single-frequency fit
\* changes c_zp.
C14_OffsetCarriedBetweenJointFits ==
    /\ [](hist.calls = 0 => c_zp = 0)
    /\ [][ IF loc'.op = "mf" /\ hist'.calls = hist.calls + 1
           THEN LET args == Val(loc'.mf_args)
                    res == Val(loc'.mf_res)
                    terms == SumModels(freqs'.flist, lcs[1].time, 1)
                IN  IF cfg.mf_include_zp
                    THEN /\ args.zp0 = Some(c_zp) /\ c_zp' = res.zpz
                         /\ Val(loc'.mf_mod) = [i \in 1..Len(Time) |-> terms[i] + res.zpz]
                    ELSE /\ args.zp0 = None /\ c_zp' = c_zp
                         /\ Val(loc'.mf_mod) = terms
           ELSE c_zp' = c_zp
         ]_vars

\* a second joint fit started from the offset the first one fitted, with a
\* single-frequency fit made in between
C14_SecondFitFromFittedOffset ==
    /\ cfg.mf_include_zp /\ hist.calls = 3 /\ loc.op = "mf" /\ pc = "returned"
    /\ ~IsNone(loc.sf_res)
    /\ Val(loc.mf_args).zp0 = Some(5) /\ c_zp = 10

Coefficients(lc) == <<lc.periodogram.slf_p, lc.periodogram.log_polypar>>

\* C15: a call on one periodogram leaves the coefficients of every other
\* periodogram as they were, leaves any coefficients already stored on its
\* own periodogram unchanged, and stores coefficients only for a model that
\* its operation evaluates.
C15_NoiseModelsFittedOnce ==
    [][ \A k \in 1..Len(lcs) :
            LET before == lcs[k].periodogram
                after == lcs'[k].periodogram
            IN  /\ k # loc'.i => Coefficients(lcs'[k]) = Coefficients(lcs[k])
                /\ ~IsNone(before.slf_p) => after.slf_p = before.slf_p
                /\ ~IsNone(before.log_polypar) => after.log_polypar = before.log_polypar
                /\ after.slf_p # before.slf_p =>
                        loc'.op \in {"sig_slf", "eval_slf_model", "select_peak"}
                /\ after.log_polypar # before.log_polypar =>
                        loc'.op \in {"sig_poly", "eval_poly_model", "select_peak"}
                /\ after.lsfreq = before.lsfreq /\ after.lsamp = before.lsamp
      ]_vars

\* after three calls the second periodogram holds both fits and the first
\* holds none
C15_BothFitsOnOnePeriodogram ==
    /\ pc = "pg_idle" /\ hist.calls = 3
    /\ ~IsNone(lcs[2].periodogram.slf_p) /\ ~IsNone(lcs[2].periodogram.log_polypar)
    /\ IsNone(lcs[1].periodogram.slf_p) /\ IsNone(lcs[1].periodogram.log_polypar)

\* C16: the polynomial coefficients stored on a periodogram are those of a
\* fit of the configured order periodograms.polyfit_order.
C16_PolynomialOfConfiguredOrder ==
    \A k \in 1..Len(lcs) :
        ~IsNone(lcs[k].periodogram.log_polypar) =>
            Val(lcs[k].periodogram.log_polypar).order = cfg.polyfit_order

\* the grid points within bin_r of the target frequency of the call
BoxWindow ==
    LET a == Val(loc.sp_args)
    IN  {i \in 1..Len(BoxGrid) : Abs(BoxGrid[i] - a.f) <= a.bin_r}

\* the grid points nearest to the target frequency of the call
BoxPeak ==
    LET a == Val(loc.sp_args)
    IN  {i \in 1..Len(BoxGrid) :
            \A j \in 1..Len(BoxGrid) : Abs(BoxGrid[i] - a.f) <= Abs(BoxGrid[j] - a.f)}

\* sig is freq_amp over the mean of the amplitudes at the grid points S
IsAmpOverMean(sig, S) ==
    LET a == Val(loc.sp_args)
        pg == lcs[1].periodogram
        total == SumSeq([k \in 1..Len(BoxGrid) |-> IF k \in S THEN pg.lsamp[k] ELSE 0])
    IN  IF S = {} THEN sig = <<0, 0>>
        ELSE sig # <<0, 0>> /\ sig[1] * total = sig[2] * a.a * Cardinality(S)

\* C17: when sig_box or peak_sig_box returns, the result is the query
\* amplitude over the mean of the amplitudes at the grid points within bin_r
\* of the target frequency, leaving out a run of grid points that holds the
\* peak (the points between its two troughs, wherever the troughs lie).
C17_BoxMeanLeavesOutPeak ==
    (pc = "returned" /\ loc.op \in {"sig_box", "peak_sig_box"}) =>
        \E lo \in 1..Len(BoxGrid), hi \in 1..Len(BoxGrid) :
            /\ \E c \in BoxPeak : lo <= c /\ c <= hi
            /\ IsAmpOverMean(Val(loc.cand[1]), BoxWindow \ (lo..hi))

\* C18: before post-processing the fields sig_slf, sig_poly and sig_avg of
\* every record are zero; once the significances are computed, sig_avg of
\* every record is its box significance against the periodogram of the
\* last light curve.
C18_SigAvgHoldsBoxSignificance ==
    /\ pc \in ItPwStages \cup {"idle", "auto_for", "post_pw"} =>
        \A k \in 1..Len(freqs.flist) :
            /\ freqs.flist[k].sig_slf = <<0, 1>>
            /\ freqs.flist[k].sig_poly = <<0, 1>>
            /\ freqs.flist[k].sig_avg = <<0, 1>>
    /\ pc \in {"post_unc", "post_save", "done"} =>
        \A k \in 1..Len(freqs.flist) :
            freqs.flist[k].sig_avg =
                Val(sig_box(Last(lcs).periodogram, freqs.flist[k].f, freqs.flist[k].a, BinR).sig)

\* C19: the count n of the container is the length of its list: after the
\* construction from any number of records and after every add_frequency
\* and del_frequency call, a del_frequency that raised IndexError included.
C19_CountIsLength ==
    freqs.n = Len(freqs.flist)

\* a del_frequency at a position that does not exist, after an add and a
\* del that removed a record, left one record in the container
C19_FailedDelAfterAddAndDel ==
    /\ pc = "ct_idle" /\ hist.calls = 3
    /\ loc.op = "del_frequency" /\ loc.error = "IndexError"
    /\ Len(freqs.flist) = 1

\* C20: the array mf_model(time, zp) returned is, at every time, the sum of
\* evaluate_model of each record held plus zp; it is zp with no record held.
C20_MfModelSumsRecordModels ==
    (loc.op = "mf_model" /\ ~IsNone(loc.mf_mod)) =>
        LET a == Val(loc.mf_args)
            s == SumModels(freqs.flist, a.x, 1)
        IN  Val(loc.mf_mod) = [i \in 1..Len(a.x) |-> s[i] + a.zp]

\* the series handed to the constructor has fewer than two points or no span
Degenerate(time) == Len(time) < 2 \/ t_span([time |-> time]) = 0

\* C21: a Periodogram built on an automatic grid, with configured or given
\* bounds, from a series of at least two points and positive span has a
\* grid and an amplitude sequence of one length, at least 2, the grid
\* strictly increasing and no amplitude negative.
C21_GridAndAmplitudesWellFormed ==
    (/\ pc = "built"
     /\ IsNone(Val(loc.sp_args).lsfreq)
     /\ ~Degenerate(lcs[1].time)) =>
        LET pg == lcs[1].periodogram
        IN  /\ Len(pg.lsfreq) = Len(pg.lsamp)
            /\ Len(pg.lsfreq) >= 2
            /\ \A i \in 1..(Len(pg.lsfreq) - 1) : pg.lsfreq[i] < pg.lsfreq[i + 1]
            /\ \A i \in 1..Len(pg.lsamp) : pg.lsamp[i] >= 0

\* C22: a constructor handed a degenerate series raises an error that
\* describes the series, and leaves no object.
C22_DegenerateSeriesRejected ==
    (pc \in {"built", "raised"} /\ Degenerate(Val(loc.sf_args).x)) =>
        /\ pc = "raised"
        /\ lcs = <<>>
        /\ loc.error = "ValueError: max() arg is an empty sequence"

\* the number of adjacent samples of lc with strictly opposite signs
OppositePairs(lc) ==
    Cardinality({i \in 1..(Len(lc.data) - 1) : lc.data[i] * lc.data[i + 1] < 0})

\* sqrt(c/N)*sigma/(pi^k * T * a) for the residual lc, as its operands
Propagated(c, lc, k, T, a) ==
    Some([c |-> c, N_eff |-> OppositePairs(lc), std_of |-> lc.data, pi_power |-> k,
          T |-> T, a |-> a])

\* C23: once compute_parameter_uncertainties has returned, every record
\* with amplitude a has sigma_a = sqrt(2/N_eff)*sigma, sigma_p =
\* sqrt(2/N_eff)*sigma/a and sigma_f = sqrt(6/N_eff)*sigma/(pi*T*a), with
\* N_eff the number of adjacent samples of the residual with strictly
\* opposite signs, sigma its standard deviation and T its time span; the
\* call changes no record's f, a or p and no record's place.
C23_UncertaintyFormulas ==
    /\ [](pc \in {"post_save", "done"} =>
            \A k \in 1..Len(freqs.flist) :
                LET r == freqs.flist[k]
                    lc == Last(lcs)
                IN  /\ r.sigma_a = Propagated(2, lc, 0, 1, 1)
                    /\ r.sigma_p = Propagated(2, lc, 0, 1, r.a)
                    /\ r.sigma_f = Propagated(6, lc, 1, t_span(lc), r.a))
    /\ [][pc = "post_unc" =>
            /\ Len(freqs'.flist) = Len(freqs.flist)
            /\ \A k \in 1..Len(freqs.flist) :
                Triple(freqs'.flist[k]) = Triple(freqs.flist[k])]_vars

\* the uncertainties of two records of different amplitudes were computed
C23_TwoRecordsUncertain ==
    /\ pc = "done" /\ Len(freqs.flist) = 2
    /\ freqs.flist[1].a # freqs.flist[2].a
    /\ freqs.flist[1].sigma_a = freqs.flist[2].sigma_a
    /\ freqs.flist[1].sigma_p # freqs.flist[2].sigma_p
    /\ OppositePairs(Last(lcs)) > 0

\* C24: an exception of save_it in an iteration does not end the iteration:
\* the step after the call is the appending of the residual light curve.
C24_OutputFailureDoesNotStop ==
    [][pc = "save_it" => pc' = "new_lc"]_vars

\* it_pw is between two iterations of auto(), or auto() has left the loop
BetweenIterations == pc \in {"auto_for", "post_pw"}

\* the residual policy is one under which an iteration can succeed
ValidPolicy == cfg.new_lc_generation_method \in {"mf", "sf"}

\* C25 as stated: between iterations the output collaborator has been
\* called once per successful iteration, and the k-th call received the
\* list ending with the residual the k-th iteration produced, the
\* collection of k records and the offset of the joint fit.
C25_OutputReceivesNewResidual ==
    /\ (BetweenIterations /\ ValidPolicy) =>
        /\ Len(out) = Len(lcs) - 1
        /\ \A k \in 1..Len(out) :
            /\ out[k].op = "save_it" /\ out[k].nfreqs = k
            /\ out[k].nlcs = k + 1 /\ out[k].last_data = lcs[k + 1].data
    /\ pc = "new_lc" => Last(out).zp = c_zp

\* C25, amended: between iterations the output collaborator has been
\* called once per successful iteration, after the joint fit (it received
\* the collection of k records and the offset the fit left), and the k-th
\* call received the list of the k light curves held before the iteration's
\* residual is appended, ending with the light curve the iteration's peak
\* was identified in.
C25_OutputReceivesIdentifiedSeries ==
    /\ (BetweenIterations /\ ValidPolicy) =>
        /\ Len(out) = Len(lcs) - 1
        /\ \A k \in 1..Len(out) :
            /\ out[k].op = "save_it" /\ out[k].nfreqs = k
            /\ out[k].nlcs = k /\ out[k].last_data = lcs[k].data
    /\ pc = "new_lc" => Last(out).zp = c_zp /\ Last(out).nlcs = Len(lcs)

\* two iterations succeeded; the second call received the first residual,
\* not the second
C25_SecondCallBeforeSecondResidual ==
    /\ pc = "post_pw" /\ Len(lcs) = 3 /\ Len(out) = 2
    /\ out[2].last_data = lcs[2].data /\ lcs[3].data # lcs[2].data
    /\ out[2].zp # 0

\* C26: adjust_params leaves the record with an amplitude >= 0 and a phase
\* in [0, 1] and with the same model values at every time; a negative
\* amplitude is negated and the phase moved by half a cycle, the phase is
\* the old one modulo 1; f, f0, a0, p0 and the other records are unchanged.
C26_AdjustKeepsSinusoid ==
    [][(pc = "ct_idle" /\ loc'.op = "adjust_params" /\ hist'.calls = hist.calls + 1) =>
            LET k == loc'.i
                old == freqs.flist[k]
                new == freqs'.flist[k]
            IN  /\ new.a >= 0 /\ new.a = Abs(old.a)
                /\ 0 <= new.p /\ new.p <= 100
                /\ (new.p - old.p - (IF old.a < 0 THEN 50 ELSE 0)) % 100 = 0
                /\ evaluate_model(new, lcs[1].time) = evaluate_model(old, lcs[1].time)
                /\ new.f = old.f /\ Retained(new) = Retained(old)
                /\ Len(freqs'.flist) = Len(freqs.flist)
                /\ \A j \in 1..Len(freqs.flist) : j # k => freqs'.flist[j] = freqs.flist[j]
      ]_vars

\* a record updated to the amplitude -2 and the phase 55.3 was adjusted to
\* the amplitude 2 and the phase 0.8
C26_NegativeAmplitudeAdjusted ==
    /\ loc.op = "adjust_params" /\ loc.i \in 1..Len(freqs.flist)
    /\ hist.calls = 2
    /\ Triple(freqs.flist[loc.i]) = <<22, 2, 80>>
    /\ freqs.flist[loc.i].f0 # 22

\* the amplitude at the grid index i, counted from 0
AmpAt(i) == lcs[1].periodogram.lsamp[i + 1]

\* the grid index, from 0, of the target frequency of the call
CenterIndex == Val(IndexOfFreq(lcs[1].periodogram, Val(loc.sp_args).f))

\* the grid index c, from 0, is a peak: higher than its neighbours
IsPeak(c) ==
    /\ c > 0 => AmpAt(c - 1) < AmpAt(c)
    /\ c < Len(BoxGrid) - 1 => AmpAt(c + 1) < AmpAt(c)

\* l and r are the troughs around c: the amplitude falls at every step from
\* c to l and to r, and not one step further unless the grid ends
AreTroughs(l, c, r) ==
    /\ 0 <= l /\ l <= c /\ c <= r /\ r <= Len(BoxGrid) - 1
    /\ \A j \in l..(c - 1) : AmpAt(j) < AmpAt(j + 1)
    /\ \A j \in (c + 1)..r : AmpAt(j) < AmpAt(j - 1)
    /\ l = 0 \/ AmpAt(l - 1) >= AmpAt(l)
    /\ r = Len(BoxGrid) - 1 \/ AmpAt(r + 1) >= AmpAt(r)

\* C27: find_troughs called with a peak index of the grid returns, and
\* returns the troughs around it.
C27_TroughsAroundEveryPeak ==
    (loc.op = "find_troughs" /\ IsPeak(CenterIndex)) =>
        /\ pc = "returned"
        /\ AreTroughs(Val(loc.cand[1])[1], CenterIndex, Val(loc.cand[1])[2])

\* C28: find_index_of_freq(t) returns an index of the grid whose frequency
\* is as close to t as any grid frequency.
C28_IndexOfClosestFrequency ==
    loc.op = "find_index_of_freq" =>
        LET t == Val(loc.sp_args).f
            i == Val(loc.cand[1])
        IN  /\ 0 <= i /\ i <= Len(BoxGrid) - 1
            /\ \A j \in 1..Len(BoxGrid) : Abs(BoxGrid[i + 1] - t) <= Abs(BoxGrid[j] - t)

\* the series of a light curve and the spectrum computed from it
Series(lc) == <<lc.time, lc.data, lc.err, lc.periodogram.lsfreq, lc.periodogram.lsamp>>

\* the number of entries of the sequence s that equal v
CountOf(s, v) == Cardinality({k \in 1..Len(s) : s[k] = v})

\* C29: under the policies 'mf' and 'sf', whenever the it_pw calls made so
\* far have returned, len(lcs) = freqs.n + 1, the calls that returned 0 are
\* as many as the records and as the light curves appended and a call that
\* returned 1 added neither; no step shortens lcs or changes the series of
\* a light curve already in it.
C29_OneLightCurvePerRecord ==
    /\ []((ValidPolicy /\ pc \in {"idle", "auto_for", "post_pw"}) =>
            /\ Len(lcs) = freqs.n + 1
            /\ Len(freqs.flist) = CountOf(hist.flags, 0)
            /\ Len(hist.flags) = CountOf(hist.flags, 0) + CountOf(hist.flags, 1))
    /\ [][/\ Len(lcs') >= Len(lcs)
          /\ \A k \in 1..Len(lcs) : Series(lcs'[k]) = Series(lcs[k])
          /\ (ValidPolicy /\ Len(hist'.flags) > Len(hist.flags)) =>
                IF Last(hist'.flags) = 0
                THEN Len(lcs') = Len(lcs) + 1
                ELSE Len(lcs') = Len(lcs) /\ freqs' = freqs]_vars

\* one call returned 0 and the next returned 1
C29_SuccessThenTermination ==
    /\ pc = "post_pw" /\ hist.flags = <<0, 1>>
    /\ Len(lcs) = 2 /\ freqs.n = 1

\* C30: when the first it_pw call of auto() returned 1, auto() ends without
\* an exception, with the collection empty and lcs holding the original
\* light curve alone.
C30_AutoCompletesWithNoRecord ==
    (Terminated /\ hist.flags = <<1>>) =>
        /\ pc = "done"
        /\ freqs.flist = <<>> /\ freqs.n = 0
        /\ Len(lcs) = 1

====
